---- MODULE Spec2Model ----
(***************************************************************************)
(* Verification model of MidT2M (src/MidT2M.py): the segment grammar       *)
(* parser, the two MIDI note extractors, the event scheduler, the frame    *)
(* loop with its encoder, the worker thread and the window's busy state.   *)
(*                                                                         *)
(* Text is a sequence of one-character strings.  Ratios and times are      *)
(* exact: a ratio is a reduced fraction <<num, den>>, a time in seconds is *)
(* an integer count of units of 1/(10^6 * ticks_per_beat) s, so that       *)
(* tick2second(ticks, tpb, tempo) is the integer ticks * tempo.            *)
(***************************************************************************)
EXTENDS Integers, Sequences, FiniteSets, TLC

VARIABLES
    ppc,        \* parser driver: "input" before the call, "parsed" after
    raw_text,   \* argument of parse_dynamic_segment
    output      \* value returned by parse_dynamic_segment

parseVars == <<ppc, raw_text, output>>

VARIABLES
    mpc,        \* extraction: "tracks" between tracks, "msgs" in a track, "done"
    track_idx,  \* index of the track being walked (-1 before the first)
    pending,    \* messages of the track the tempo pre-pass has read ahead
    track_closed, \* the pre-pass has seen the end of the track
    n_msgs,     \* messages of the file read so far
    msg,        \* the message the walkers handled last
    \* MidiLoadThread.run
    abs_tick_track, abs_sec_track, active_notes_in_track, current_tempo_track,
    current_tempo_global, last_note_actual_end_map, all_processed_notes,
    delta_sec_msg,
    \* generate_lyric_video_v2
    current_tempo, abs_time_sec, abs_time_tick, active_notes_on_track,
    timed_notes, delta_sec,
    \* observers
    note_tracks,    \* track of each entry of all_processed_notes
    timed_tracks,   \* track of each entry of timed_notes
    note_on_ticks,  \* tick of the note-on message of each processed note
    note_off_ticks, \* tick of the note-off message of each processed note
    on_seen,        \* per pitch, ticks of the note-on messages of this track
    off_seen,       \* per pitch, ticks of the note-off messages of this track
    tempo_in_track, \* tempo of the last set_tempo passed in this track, 0 if none
    tempo_in_file,  \* tempo of the last set_tempo passed in the file, 0 if none
    lead_tempo      \* tempo of a set_tempo that only meta messages precede, 0 if none

VARIABLES
    spc,        \* scheduling: "idle", "lines" in the line loop, "break", "timeline"
    lyrics_file,    \* lines of the lyric file
    note_events_with_full_duration_info, total_midi_duration_sec,
    parsed_lyrics, line_idx, note_ptr, final_events

schedVars == <<spc, lyrics_file, note_events_with_full_duration_info,
               total_midi_duration_sec, parsed_lyrics, line_idx, note_ptr,
               final_events>>

loadVars == <<abs_tick_track, abs_sec_track, active_notes_in_track,
              current_tempo_track, current_tempo_global,
              last_note_actual_end_map, all_processed_notes, delta_sec_msg>>
genVars == <<current_tempo, abs_time_sec, abs_time_tick, active_notes_on_track,
             timed_notes, delta_sec>>
obsVars == <<note_tracks, timed_tracks, note_on_ticks, note_off_ticks,
             on_seen, off_seen, tempo_in_track, tempo_in_file, lead_tempo>>
midiVars == <<mpc, track_idx, pending, track_closed, n_msgs, msg,
              loadVars, genVars, obsVars>>

VARIABLES
    fpc,        \* video: "idle", "frames" in the frame loop, "done", "error"
                \* (returned early), "raised" (an exception left the function),
                \* "crashed" (it left run), "terminated" (QThread.terminate)
    fps, line_placement_mode, line_h_align,     \* parameters of the run
    video_total_frames, video_total_duration_sec_final,
    frame_num,      \* number of frames written, the index of the next frame
    current_event_ptr, current_line_idx_on_screen, active_segment_event_data,
    num_max_segments_in_current_line, fixed_layout_cache,
    \* observers of the frame loop
    drawn,          \* per segment slot of the last frame written: text and x
    start_x_used,   \* <<current_x_to_draw>> before the first segment of the
                    \* last frame written, <<>> if it had nothing to draw
    consumed,       \* indices of the timeline events processed, in order
    layout_runs,    \* line indices for which a fixed layout was calculated
    logged          \* kinds of the log messages written so far

VARIABLES
    \* what the run is given
    midi_readable,      \* mido.MidiFile(midi_path) does not raise
    lyrics_readable,    \* open(lyrics_path) does not raise
    font_usable,        \* ImageFont.truetype(font_path) does not raise
    codec_results,      \* per fourcc option: "opened", "closed" or "raises"
    frame_fault,        \* <<kind, frame>>: "size" or "write" fault at a frame
    \* the encoder objects
    writers,            \* per cv2.VideoWriter made: opened, number of releases,
                        \* number of frames written
    video_writer,       \* index in writers, 0 for None
    video_writer_test,  \* index in writers, 0 while unbound
    \* observers of the run
    line_when_consumed, \* on-screen line index before each event processed
    progress_calls,     \* arguments of the calls of progress_callback
    \* VideoGenThread and closeEvent
    interruption_requested,
    generation_finished     \* arguments of the generation_finished signals

VARIABLES
    \* MainWindow
    video_gen_thread,   \* "none", "running" (isRunning), "finished"
    midi_load_thread,   \* "none", "running" (isRunning), "finished"
    midi_path, midi_path_edit,
    loading_project_or_midi,
    generate_button_enabled, progress_bar_visible, lyrics_edit_read_only,
    \* the event queue of the window and an observer
    generation_finished_queued, \* generation_finished signals not yet handled
    midi_finished_queued,       \* MidiLoadThread.finished signals not yet handled
    video_workers               \* number of VideoGenThread objects running

envVars == <<midi_readable, lyrics_readable, font_usable, codec_results, frame_fault>>
encVars == <<writers, video_writer, video_writer_test>>
threadVars == <<interruption_requested, generation_finished>>
uiVars == <<video_gen_thread, midi_load_thread, midi_path, midi_path_edit,
            loading_project_or_midi, generate_button_enabled, progress_bar_visible,
            lyrics_edit_read_only, generation_finished_queued,
            midi_finished_queued, video_workers>>
loopVars == <<fps, line_placement_mode, line_h_align, video_total_frames,
              video_total_duration_sec_final, frame_num, current_event_ptr,
              current_line_idx_on_screen, active_segment_event_data,
              num_max_segments_in_current_line, fixed_layout_cache,
              drawn, start_x_used, consumed, layout_runs, line_when_consumed,
              progress_calls>>
runVars == <<envVars, encVars, threadVars, uiVars>>
renderVars == <<fpc, loopVars, runVars>>
frameVars == <<renderVars, logged>>

vars == <<parseVars, midiVars, schedVars, frameVars>>

(***************************************************************************)
(* Bounds                                                                  *)
(***************************************************************************)
MaxTokens == 5
MaxMsgs == 4
MaxTracks == 2
MaxNotes == 3
MaxLines == 2
MaxFallbackNotes == 1

(***************************************************************************)
(* Exact ratios                                                            *)
(***************************************************************************)
RECURSIVE Gcd(_, _)
Gcd(a, b) == IF b = 0 THEN a ELSE Gcd(b, a % b)

Rat(n, d) == LET g == Gcd(IF n < 0 THEN -n ELSE n, d) IN <<n \div g, d \div g>>

R0 == <<0, 1>>
R1 == <<1, 1>>

RLt(a, b) == a[1] * b[2] < b[1] * a[2]
RLe(a, b) == a[1] * b[2] <= b[1] * a[2]
\* Python max(a, b): the first argument unless the second is greater
RMax(a, b) == IF RLt(a, b) THEN b ELSE a
RAdd(a, b) == Rat(a[1] * b[2] + b[1] * a[2], a[2] * b[2])
RSub(a, b) == Rat(a[1] * b[2] - b[1] * a[2], a[2] * b[2])
RMulInt(k, a) == Rat(k * a[1], a[2])
RDivInt(a, k) == Rat(a[1], a[2] * k)

(***************************************************************************)
(* str helpers                                                             *)
(***************************************************************************)
\* the backtick character is written "~" in this module
BackTicks == <<"~", "~", "~">>
Dashes == <<"-", "-", "-">>

StartsWith(s, p) == Len(s) >= Len(p) /\ SubSeq(s, 1, Len(p)) = p
EndsWith(s, p) == Len(s) >= Len(p) /\ SubSeq(s, Len(s) - Len(p) + 1, Len(s)) = p

RECURSIVE LStrip(_)
LStrip(s) == IF s # <<>> /\ Head(s) = " " THEN LStrip(Tail(s)) ELSE s

RECURSIVE RStrip(_)
RStrip(s) == IF s # <<>> /\ s[Len(s)] = " " THEN RStrip(SubSeq(s, 1, Len(s) - 1)) ELSE s

Strip(s) == RStrip(LStrip(s))

\* s[a:] and s[a:-b] of Python for 0 <= a, 0 < b
SliceFrom(s, a) == SubSeq(s, a + 1, Len(s))
SliceMid(s, a, b) == SubSeq(s, a + 1, Len(s) - b)

\* s.split(sep) for a one-character sep: always at least one part
RECURSIVE SplitAt(_, _, _, _)
SplitAt(s, sep, cur, acc) ==
    IF s = <<>> THEN Append(acc, cur)
    ELSE IF Head(s) = sep THEN SplitAt(Tail(s), sep, <<>>, Append(acc, cur))
    ELSE SplitAt(Tail(s), sep, Append(cur, Head(s)), acc)

Split(s) == SplitAt(s, "|", <<>>, <<>>)

(***************************************************************************)
(* parse_dynamic_segment                                                   *)
(***************************************************************************)
IsLiteralFormLongerOnly(stripped_text) ==
    StartsWith(stripped_text, BackTicks) /\ EndsWith(stripped_text, BackTicks)
        /\ Len(stripped_text) > 6

IsLiteralForm(stripped_text) ==
    StartsWith(stripped_text, BackTicks) /\ EndsWith(stripped_text, BackTicks)
        /\ Len(stripped_text) >= 6

IsProgressive(text) == StartsWith(text, Dashes) /\ Len(text) > 3

SlotDurationRatioOffByOne(num_sequential_slots) ==
    IF num_sequential_slots > 0 THEN Rat(1, num_sequential_slots + 1) ELSE R1

SlotDurationRatio(num_sequential_slots) ==
    IF num_sequential_slots > 0 THEN Rat(1, num_sequential_slots) ELSE R1

ProgressiveStepsShortPrefix(progressive_content, part_start_ratio, part_end_ratio) ==
    LET num_progressive_steps == Len(progressive_content)
        step_duration_ratio ==
            RDivInt(RSub(part_end_ratio, part_start_ratio), num_progressive_steps)
    IN [jj \in 1..num_progressive_steps |->
           <<SubSeq(progressive_content, 1, jj - 1),
             RAdd(part_start_ratio, RMulInt(jj - 1, step_duration_ratio)),
             RAdd(part_start_ratio, RMulInt(jj, step_duration_ratio))>>]

\* the range(num_progressive_steps) loop: step j shows progressive_content[:j+1]
ProgressiveSteps(progressive_content, part_start_ratio, part_end_ratio) ==
    LET num_progressive_steps == Len(progressive_content)
        step_duration_ratio ==
            RDivInt(RSub(part_end_ratio, part_start_ratio), num_progressive_steps)
    IN [jj \in 1..num_progressive_steps |->
           <<SubSeq(progressive_content, 1, jj),
             RAdd(part_start_ratio, RMulInt(jj - 1, step_duration_ratio)),
             RAdd(part_start_ratio, RMulInt(jj, step_duration_ratio))>>]

\* the sub-segments one slot of a sequential list appends
SlotSegments(part_text, part_start_ratio, part_end_ratio) ==
    IF IsProgressive(part_text)
    THEN ProgressiveSteps(SliceFrom(part_text, 3), part_start_ratio, part_end_ratio)
    ELSE IF part_text = Dashes
    THEN << <<<<>>, part_start_ratio, part_end_ratio>> >>
    ELSE << <<part_text, part_start_ratio, part_end_ratio>> >>

RECURSIVE SequentialSegments(_, _, _)
SequentialSegments(parts, i, acc) ==
    IF i > Len(parts) THEN acc
    ELSE LET slot_duration_ratio == SlotDurationRatio(Len(parts))
             part_start_ratio == RMulInt(i - 1, slot_duration_ratio)
             part_end_ratio == RMulInt(i, slot_duration_ratio)
         IN SequentialSegments(parts, i + 1,
                acc \o SlotSegments(parts[i], part_start_ratio, part_end_ratio))

\* first normalisation loop: starts clamped to the previous end, last end 1.0
RECURSIVE ClampPass(_, _, _)
ClampPass(segs, k_seg, current_end_time) ==
    IF k_seg > Len(segs) THEN segs
    ELSE LET actual_start_ratio == RMax(current_end_time, segs[k_seg][2])
             end0 == IF k_seg = Len(segs) THEN R1 ELSE segs[k_seg][3]
             actual_end_ratio == RMax(actual_start_ratio, end0)
         IN ClampPass([segs EXCEPT ![k_seg] =
                           <<segs[k_seg][1], actual_start_ratio, actual_end_ratio>>],
                      k_seg + 1, actual_end_ratio)

\* continuity loop of the final pass
RECURSIVE ContinuityPass(_, _)
ContinuityPass(segs, k_fix_cont) ==
    IF k_fix_cont >= Len(segs) THEN segs
    ELSE LET curr == segs[k_fix_cont]
             next == segs[k_fix_cont + 1]
         IN IF RLt(next[2], curr[3])
            THEN ContinuityPass([segs EXCEPT ![k_fix_cont + 1] =
                                     <<next[1], curr[3], RMax(curr[3], next[3])>>],
                                k_fix_cont + 1)
            ELSE ContinuityPass(segs, k_fix_cont + 1)

ForceFirstLastWrongIndex(segs) ==
    LET first == [segs EXCEPT ![1] = <<segs[1][1], R0, segs[1][3]>>]
        cont == ContinuityPass(first, 1)
    IN [cont EXCEPT ![1] = <<cont[Len(cont)][1], cont[Len(cont)][2], R1>>]

\* final pass: first start 0.0, continuity, last end 1.0
ForceFirstLast(segs) ==
    LET first == [segs EXCEPT ![1] = <<segs[1][1], R0, segs[1][3]>>]
        cont == ContinuityPass(first, 1)
    IN [cont EXCEPT ![Len(cont)] = <<cont[Len(cont)][1], cont[Len(cont)][2], R1>>]

Normalize(segs) ==
    IF segs = <<>> THEN segs ELSE ForceFirstLast(ClampPass(segs, 1, R0))

FirstText(final_timed_segments) ==
    IF final_timed_segments # <<>> THEN final_timed_segments[1][1] ELSE <<>>

LastText(final_timed_segments) ==
    IF final_timed_segments # <<>>
    THEN final_timed_segments[Len(final_timed_segments)][1]
    ELSE <<>>

parse_dynamic_segment(raw) ==
    LET stripped_text == Strip(raw)
        parts == Split(stripped_text)
    IN  IF IsLiteralForm(stripped_text)
        THEN LET literal_text == SliceMid(stripped_text, 3, 3)
             IN [original_segment_text |-> raw, is_dynamic |-> FALSE,
                 sub_segments_timed |-> << <<literal_text, R0, R1>> >>,
                 text_for_layout |-> literal_text]
        ELSE IF stripped_text = Dashes
        THEN [original_segment_text |-> raw, is_dynamic |-> TRUE,
              sub_segments_timed |-> << <<<<>>, R0, R1>> >>,
              text_for_layout |-> <<>>]
        ELSE IF Len(parts) > 1
        THEN LET final_timed_segments == SequentialSegments(parts, 1, <<>>)
             IN [original_segment_text |-> raw, is_dynamic |-> TRUE,
                 sub_segments_timed |-> Normalize(final_timed_segments),
                 text_for_layout |-> LastText(final_timed_segments)]
        ELSE IF IsProgressive(stripped_text)
        THEN LET final_timed_segments ==
                     ProgressiveSteps(SliceFrom(stripped_text, 3), R0, R1)
             IN [original_segment_text |-> raw, is_dynamic |-> TRUE,
                 sub_segments_timed |-> Normalize(final_timed_segments),
                 text_for_layout |-> LastText(final_timed_segments)]
        ELSE [original_segment_text |-> raw, is_dynamic |-> FALSE,
              sub_segments_timed |-> Normalize(<< <<stripped_text, R0, R1>> >>),
              text_for_layout |-> stripped_text]

(***************************************************************************)
(* MIDI messages and time                                                  *)
(***************************************************************************)
TicksPerBeat == 480
DefaultTempo == 500000
Pitches == {60, 64}
Velocities == {0, 64}
Deltas == {0, 1}
Tempos == {250000, 10000000}

NoteOnMsgs == [type : {"note_on"}, note : Pitches, velocity : Velocities,
               time : Deltas, tempo : {0}]
NoteOffMsgs == [type : {"note_off"}, note : Pitches, velocity : {0},
                time : Deltas, tempo : {0}]
SetTempoMsgs == [type : {"set_tempo"}, note : {0}, velocity : {0},
                 time : Deltas, tempo : Tempos]
OtherMetaMsgs == [type : {"track_name"}, note : {0}, velocity : {0},
                  time : Deltas, tempo : {0}]
Msgs == NoteOnMsgs \cup NoteOffMsgs \cup SetTempoMsgs \cup OtherMetaMsgs

NoMsg == [type |-> "none", note |-> 0, velocity |-> 0, time |-> 0, tempo |-> 0]

is_meta(m) == m.type \in {"set_tempo", "track_name"}

\* mido.tick2second in units of 1/(10^6 * TicksPerBeat) s
tick2second(ticks, tempo) == ticks * tempo
\* 0.01 s in the same units
MinSec == 10000 * TicksPerBeat

Max(a, b) == IF b > a THEN b ELSE a

EmptyMap == [k \in {} |-> 0]
MapPut(map, key, val) == [k \in (DOMAIN map) \cup {key} |-> IF k = key THEN val ELSE map[k]]
MapPop(map, key) == [k \in (DOMAIN map) \ {key} |-> map[k]]

\* order of sort keys <<first, second>>, as tuples compare
KeyLe(a, b) == IF a[1] # b[1] THEN a[1] < b[1] ELSE a[2] <= b[2]

\* list.sort(key=...) is stable: the order of the indices 1..Len(keys) it
\* produces, by inserting each index after the entries whose key is <= its key
RECURSIVE InsertIndex(_, _, _)
InsertIndex(order, i, keys) ==
    IF order = <<>> THEN <<i>>
    ELSE IF KeyLe(keys[order[Len(order)]], keys[i]) THEN Append(order, i)
    ELSE Append(InsertIndex(SubSeq(order, 1, Len(order) - 1), i, keys),
                order[Len(order)])

SortOrderAsGiven(keys, n) == [i \in 1..n |-> i]

RECURSIVE SortOrder(_, _)
SortOrder(keys, n) ==
    IF n = 0 THEN <<>> ELSE InsertIndex(SortOrder(keys, n - 1), n, keys)

SortedBy(list, keys) ==
    LET order == SortOrder(keys, Len(list))
    IN [i \in 1..Len(list) |-> list[order[i]]]

(***************************************************************************)
(* MidiLoadThread.run: one track message                                   *)
(***************************************************************************)
InitialTempoAlwaysDefault(track) == DefaultTempo

\* the pre-pass over the head of a track: tempo of the first set_tempo that
\* only meta messages precede
RECURSIVE InitialTempoForTrackDeltas(_)
InitialTempoForTrackDeltas(track) ==
    IF track = <<>> THEN DefaultTempo
    ELSE IF is_meta(Head(track)) /\ Head(track).type = "set_tempo" THEN Head(track).tempo
    ELSE IF ~is_meta(Head(track)) THEN DefaultTempo
    ELSE InitialTempoForTrackDeltas(Tail(track))

AdjustedStartUnclamped(end_map, key, tick, sec) == [tick |-> tick, sec |-> sec]

\* start of a note-on: clamped to the recorded end of the previous note of
\* the same track and pitch when the onset tick lies before it
AdjustedStart(end_map, key, tick, sec) ==
    IF key \in DOMAIN end_map /\ tick < end_map[key].tick
    THEN [tick |-> end_map[key].tick, sec |-> end_map[key].sec]
    ELSE [tick |-> tick, sec |-> sec]

ClosedNoteNoSecondFloor(note_on_data, end_tick, end_sec) ==
    LET actual_start_tick == note_on_data.start_tick_abs_track
        actual_start_sec == note_on_data.start_sec_abs_track
        tempo_at_note_on == note_on_data.tempo_at_note_on
        min_duration_sec == Max(MinSec, tick2second(1, tempo_at_note_on))
        ticks0 == end_tick - actual_start_tick
        sec0 == end_sec - actual_start_sec
        duration_ticks == IF ticks0 < 1 THEN 1 ELSE ticks0
        final_end_tick == IF ticks0 < 1 THEN actual_start_tick + duration_ticks ELSE end_tick
        sec1 == IF sec0 < min_duration_sec THEN min_duration_sec ELSE sec0
        end_sec1 == IF sec0 < min_duration_sec THEN actual_start_sec + sec1 ELSE end_sec
        reconvert == duration_ticks = 1 /\ sec1 # min_duration_sec
        final_end_sec ==
            IF reconvert
            THEN actual_start_sec + tick2second(duration_ticks, tempo_at_note_on)
            ELSE end_sec1
        duration_sec == IF reconvert THEN final_end_sec - actual_start_sec ELSE sec1
    IN [note |-> [pitch |-> note_on_data.pitch, velocity |-> note_on_data.velocity,
                  start_time_sec |-> actual_start_sec, duration_sec |-> duration_sec,
                  start_time_tick |-> actual_start_tick, duration_ticks |-> duration_ticks],
        end |-> [tick |-> final_end_tick, sec |-> final_end_sec]]

\* the note and its recorded end that a note-off at (end_tick, end_sec) closes
ClosedNote(note_on_data, end_tick, end_sec) ==
    LET actual_start_tick == note_on_data.start_tick_abs_track
        actual_start_sec == note_on_data.start_sec_abs_track
        tempo_at_note_on == note_on_data.tempo_at_note_on
        min_duration_ticks == 1
        min_duration_sec == Max(MinSec, tick2second(min_duration_ticks, tempo_at_note_on))
        ticks0 == end_tick - actual_start_tick
        sec0 == end_sec - actual_start_sec
        duration_ticks == IF ticks0 < min_duration_ticks THEN min_duration_ticks ELSE ticks0
        final_end_tick == IF ticks0 < min_duration_ticks
                          THEN actual_start_tick + duration_ticks ELSE end_tick
        sec1 == IF sec0 < min_duration_sec THEN min_duration_sec ELSE sec0
        end_sec1 == IF sec0 < min_duration_sec THEN actual_start_sec + sec1 ELSE end_sec
        reconvert == duration_ticks = min_duration_ticks /\ sec1 # min_duration_sec
        final_end_sec ==
            IF reconvert
            THEN Max(actual_start_sec + tick2second(duration_ticks, tempo_at_note_on),
                     actual_start_sec + MinSec)
            ELSE end_sec1
        duration_sec == IF reconvert THEN final_end_sec - actual_start_sec ELSE sec1
    IN [note |-> [pitch |-> note_on_data.pitch, velocity |-> note_on_data.velocity,
                  start_time_sec |-> actual_start_sec, duration_sec |-> duration_sec,
                  start_time_tick |-> actual_start_tick, duration_ticks |-> duration_ticks],
        end |-> [tick |-> final_end_tick, sec |-> final_end_sec]]

IsNoteOn(m) == m.type = "note_on" /\ m.velocity > 0
IsNoteOff(m) == m.type = "note_off" \/ (m.type = "note_on" /\ m.velocity = 0)

LoadMessage(m) ==
    LET delta_ticks_msg == m.time
        dsec == tick2second(delta_ticks_msg, current_tempo_track)
        tick == abs_tick_track + delta_ticks_msg
        sec == abs_sec_track + dsec
        key == <<track_idx, m.note>>
    IN  /\ delta_sec_msg' = dsec
        /\ abs_tick_track' = tick
        /\ abs_sec_track' = sec
        /\ IF is_meta(m) /\ m.type = "set_tempo"
           THEN /\ current_tempo_track' = m.tempo
                /\ current_tempo_global' = m.tempo
                /\ UNCHANGED <<active_notes_in_track, last_note_actual_end_map,
                               all_processed_notes, note_tracks, note_on_ticks,
                               note_off_ticks>>
           ELSE IF IsNoteOn(m)
           THEN LET start == AdjustedStart(last_note_actual_end_map, key, tick, sec)
                IN /\ active_notes_in_track' =
                        MapPut(active_notes_in_track, m.note,
                               [pitch |-> m.note, velocity |-> m.velocity,
                                start_tick_abs_track |-> start.tick,
                                start_sec_abs_track |-> start.sec,
                                tempo_at_note_on |-> current_tempo_track,
                                on_tick |-> tick])
                   /\ UNCHANGED <<current_tempo_track, current_tempo_global,
                                  last_note_actual_end_map, all_processed_notes,
                                  note_tracks, note_on_ticks, note_off_ticks>>
           ELSE IF IsNoteOff(m) /\ m.note \in DOMAIN active_notes_in_track
           THEN LET closed == ClosedNote(active_notes_in_track[m.note], tick, sec)
                IN /\ active_notes_in_track' = MapPop(active_notes_in_track, m.note)
                   /\ all_processed_notes' = Append(all_processed_notes, closed.note)
                   /\ last_note_actual_end_map' =
                        MapPut(last_note_actual_end_map, key, closed.end)
                   /\ note_tracks' = Append(note_tracks, track_idx)
                   /\ note_on_ticks' =
                        Append(note_on_ticks, active_notes_in_track[m.note].on_tick)
                   /\ note_off_ticks' = Append(note_off_ticks, tick)
                   /\ UNCHANGED <<current_tempo_track, current_tempo_global>>
           ELSE UNCHANGED <<current_tempo_track, current_tempo_global,
                            active_notes_in_track, last_note_actual_end_map,
                            all_processed_notes, note_tracks, note_on_ticks,
                            note_off_ticks>>

(***************************************************************************)
(* generate_lyric_video_v2: one track message of its own extraction        *)
(***************************************************************************)
GenMessage(m) ==
    LET dsec == tick2second(m.time, current_tempo)
        sec == abs_time_sec + dsec
        tick == abs_time_tick + m.time
    IN  /\ delta_sec' = dsec
        /\ abs_time_sec' = sec
        /\ abs_time_tick' = tick
        /\ IF is_meta(m) /\ m.type = "set_tempo"
           THEN /\ current_tempo' = m.tempo
                /\ UNCHANGED <<active_notes_on_track, timed_notes, timed_tracks>>
           ELSE IF IsNoteOn(m)
           THEN /\ active_notes_on_track' =
                     MapPut(active_notes_on_track, m.note,
                            [start_sec |-> sec, start_tick |-> tick,
                             velocity |-> m.velocity, pitch |-> m.note])
                /\ UNCHANGED <<current_tempo, timed_notes, timed_tracks>>
           ELSE IF IsNoteOff(m) /\ m.note \in DOMAIN active_notes_on_track
           THEN LET note_on_data == active_notes_on_track[m.note]
                IN /\ active_notes_on_track' = MapPop(active_notes_on_track, m.note)
                   /\ timed_notes' = Append(timed_notes,
                        [time_sec |-> note_on_data.start_sec,
                         duration_sec |-> Max(MinSec, sec - note_on_data.start_sec),
                         duration_ticks |-> Max(1, tick - note_on_data.start_tick),
                         pitch |-> note_on_data.pitch,
                         velocity |-> note_on_data.velocity])
                   /\ timed_tracks' = Append(timed_tracks, track_idx)
                   /\ UNCHANGED current_tempo
           ELSE UNCHANGED <<current_tempo, active_notes_on_track, timed_notes,
                            timed_tracks>>

(***************************************************************************)
(* Walking a MIDI file with both extractors                                *)
(***************************************************************************)
\* what the pre-pass reads of a track: leading meta messages up to and
\* including the first set_tempo or non-meta message, or the whole track
RECURSIVE MetaRuns(_)
MetaRuns(n) ==
    IF n = 0 THEN {<<>>}
    ELSE MetaRuns(n - 1) \cup
         {Append(r, m) : r \in {q \in MetaRuns(n - 1) : Len(q) = n - 1}, m \in OtherMetaMsgs}

Heads(n) ==
    MetaRuns(n) \cup
    {Append(r, m) : r \in (IF n = 0 THEN {} ELSE MetaRuns(n - 1)), m \in Msgs \ OtherMetaMsgs}

HeadEndsTrack(head) == head = <<>> \/ head[Len(head)].type = "track_name"

MidiStart ==
    /\ mpc = "tracks" /\ track_idx = -1 /\ pending = <<>> /\ track_closed = FALSE
    /\ n_msgs = 0 /\ msg = NoMsg
    /\ abs_tick_track = 0 /\ abs_sec_track = 0 /\ active_notes_in_track = EmptyMap
    /\ current_tempo_track = DefaultTempo /\ current_tempo_global = DefaultTempo
    /\ last_note_actual_end_map = EmptyMap /\ all_processed_notes = <<>>
    /\ delta_sec_msg = 0
    /\ current_tempo = DefaultTempo /\ abs_time_sec = 0 /\ abs_time_tick = 0
    /\ active_notes_on_track = EmptyMap /\ timed_notes = <<>> /\ delta_sec = 0
    /\ note_tracks = <<>> /\ timed_tracks = <<>>
    /\ note_on_ticks = <<>> /\ note_off_ticks = <<>>
    /\ on_seen = [p \in Pitches |-> <<>>] /\ off_seen = [p \in Pitches |-> <<>>]
    /\ tempo_in_track = 0 /\ tempo_in_file = 0 /\ lead_tempo = 0

\* for track_idx, track in enumerate(mid.tracks): per-track reset and pre-pass
StartTrack ==
    /\ mpc = "tracks"
    /\ track_idx + 1 < MaxTracks
    /\ \E head \in Heads(MaxMsgs - n_msgs) :
         /\ pending' = head
         /\ track_closed' = HeadEndsTrack(head)
         /\ n_msgs' = n_msgs + Len(head)
         /\ current_tempo_track' = InitialTempoForTrackDeltas(head)
         /\ lead_tempo' = IF head # <<>> /\ head[Len(head)].type = "set_tempo"
                          THEN head[Len(head)].tempo ELSE 0
    /\ track_idx' = track_idx + 1
    /\ mpc' = "msgs"
    /\ abs_tick_track' = 0 /\ abs_sec_track' = 0
    /\ active_notes_in_track' = EmptyMap
    /\ abs_time_sec' = 0 /\ abs_time_tick' = 0
    /\ active_notes_on_track' = EmptyMap
    /\ tempo_in_track' = 0
    /\ on_seen' = [p \in Pitches |-> <<>>] /\ off_seen' = [p \in Pitches |-> <<>>]
    /\ UNCHANGED <<msg, current_tempo_global, last_note_actual_end_map,
                   all_processed_notes, delta_sec_msg, current_tempo, timed_notes,
                   delta_sec, note_tracks, timed_tracks, note_on_ticks,
                   note_off_ticks, tempo_in_file>>
    /\ UNCHANGED <<parseVars, schedVars, frameVars>>

Walk(m) ==
    /\ msg' = m
    /\ LoadMessage(m)
    /\ GenMessage(m)
    /\ tempo_in_track' = IF m.type = "set_tempo" THEN m.tempo ELSE tempo_in_track
    /\ tempo_in_file' = IF m.type = "set_tempo" THEN m.tempo ELSE tempo_in_file
    /\ on_seen' = IF IsNoteOn(m)
                  THEN [on_seen EXCEPT ![m.note] = Append(@, abs_tick_track + m.time)]
                  ELSE on_seen
    /\ off_seen' = IF IsNoteOff(m)
                   THEN [off_seen EXCEPT ![m.note] = Append(@, abs_tick_track + m.time)]
                   ELSE off_seen
    /\ UNCHANGED <<mpc, track_idx, track_closed, lead_tempo>>
    /\ UNCHANGED <<parseVars, schedVars, frameVars>>

\* for msg in track: a message the pre-pass has already read
WalkPending ==
    /\ mpc = "msgs"
    /\ pending # <<>>
    /\ pending' = Tail(pending)
    /\ UNCHANGED n_msgs
    /\ Walk(Head(pending))

\* for msg in track: the next message of the track
WalkNext ==
    /\ mpc = "msgs"
    /\ pending = <<>>
    /\ ~track_closed
    /\ n_msgs < MaxMsgs
    /\ \E m \in Msgs :
         /\ n_msgs' = n_msgs + 1
         /\ UNCHANGED pending
         /\ Walk(m)

EndTrack ==
    /\ mpc = "msgs"
    /\ pending = <<>>
    /\ mpc' = "tracks"
    /\ UNCHANGED <<track_idx, pending, track_closed, n_msgs, msg, loadVars,
                   genVars, obsVars>>
    /\ UNCHANGED <<parseVars, schedVars, frameVars>>

LoadKeys(notes) == [i \in 1..Len(notes) |-> <<notes[i].start_time_sec, 0>>]
GenKeys(notes) == [i \in 1..Len(notes) |-> <<notes[i].time_sec, 0>>]

\* after the last track: all_processed_notes.sort / timed_notes.sort
FinishWalk ==
    /\ mpc = "tracks" /\ fpc = "idle"
    /\ mpc' = "done"
    /\ all_processed_notes' = SortedBy(all_processed_notes, LoadKeys(all_processed_notes))
    /\ note_tracks' = SortedBy(note_tracks, LoadKeys(all_processed_notes))
    /\ note_on_ticks' = SortedBy(note_on_ticks, LoadKeys(all_processed_notes))
    /\ note_off_ticks' = SortedBy(note_off_ticks, LoadKeys(all_processed_notes))
    /\ timed_notes' = SortedBy(timed_notes, GenKeys(timed_notes))
    /\ timed_tracks' = SortedBy(timed_tracks, GenKeys(timed_notes))
    /\ UNCHANGED <<track_idx, pending, track_closed, n_msgs, msg,
                   abs_tick_track, abs_sec_track, active_notes_in_track,
                   current_tempo_track, current_tempo_global,
                   last_note_actual_end_map, delta_sec_msg,
                   current_tempo, abs_time_sec, abs_time_tick,
                   active_notes_on_track, delta_sec, on_seen, off_seen,
                   tempo_in_track, tempo_in_file, lead_tempo>>
    /\ UNCHANGED <<parseVars, schedVars, frameVars>>

ParseIdle == ppc = "idle" /\ raw_text = <<>> /\ output =
    [original_segment_text |-> <<>>, is_dynamic |-> FALSE,
     sub_segments_timed |-> <<>>, text_for_layout |-> <<>>]

SchedIdle ==
    /\ spc = "idle" /\ lyrics_file = <<>>
    /\ note_events_with_full_duration_info = <<>> /\ total_midi_duration_sec = 0
    /\ parsed_lyrics = <<>> /\ line_idx = 0 /\ note_ptr = 0 /\ final_events = <<>>

\* fourcc_str_options = ['avc1', 'X264', 'H264', 'mp4v']
FourccOptions == 4

\* the frame loop has not started; fps, line_placement_mode and line_h_align
\* take the values given
LoopStart(f, mode, align) ==
    /\ fpc = "idle" /\ fps = f
    /\ line_placement_mode = mode /\ line_h_align = align
    /\ video_total_frames = 0 /\ video_total_duration_sec_final = 0
    /\ frame_num = 0 /\ current_event_ptr = 0 /\ current_line_idx_on_screen = -1
    /\ active_segment_event_data = <<>> /\ num_max_segments_in_current_line = 0
    /\ fixed_layout_cache = EmptyMap
    /\ drawn = <<>> /\ start_x_used = <<>> /\ consumed = <<>> /\ layout_runs = <<>> /\ logged = {}
    /\ line_when_consumed = <<>> /\ progress_calls = <<>>

\* no encoder object exists, nothing was asked of the thread and it has not
\* emitted anything
RunStart ==
    /\ writers = <<>> /\ video_writer = 0 /\ video_writer_test = 0
    /\ interruption_requested = FALSE /\ generation_finished = <<>>

\* a run whose files and font can be read, whose first fourcc option opens
\* and whose frames are all written
Usable ==
    /\ midi_readable = TRUE /\ lyrics_readable = TRUE /\ font_usable = TRUE
    /\ codec_results = [i \in 1..FourccOptions |-> "opened"]
    /\ frame_fault = <<"none", 0>>

\* MainWindow after __init__: no thread, _update_ui_states() was called
UiIdle ==
    /\ video_gen_thread = "none" /\ midi_load_thread = "none"
    /\ midi_path = "" /\ midi_path_edit = ""
    /\ loading_project_or_midi = FALSE
    /\ generate_button_enabled = TRUE /\ progress_bar_visible = FALSE
    /\ lyrics_edit_read_only = FALSE
    /\ generation_finished_queued = 0 /\ midi_finished_queued = 0
    /\ video_workers = 0

\* (FrameIdle: the defaults of the signature)
FrameStart(f, mode, align) ==
    LoopStart(f, mode, align) /\ RunStart /\ Usable /\ UiIdle

FrameIdle == FrameStart(30, "dynamic", "center")

InitMidi == ParseIdle /\ MidiStart /\ SchedIdle /\ FrameIdle

NextMidi == StartTrack \/ WalkPending \/ WalkNext \/ EndTrack \/ FinishWalk

SpecMidi == InitMidi /\ [][NextMidi]_vars

(***************************************************************************)
(* Parser driver: one call of parse_dynamic_segment on a bounded input     *)
(***************************************************************************)
Tokens == {BackTicks, Dashes, <<"|">>, <<"a">>, <<"b">>, <<" ">>, <<"-">>, <<"~">>}

RECURSIVE Concat(_)
Concat(toks) == IF toks = <<>> THEN <<>> ELSE Head(toks) \o Concat(Tail(toks))

Inputs == {Concat(t) : t \in UNION {[1..n -> Tokens] : n \in 0..MaxTokens}}

NoOutput == [original_segment_text |-> <<>>, is_dynamic |-> FALSE,
             sub_segments_timed |-> <<>>, text_for_layout |-> <<>>]

InitParse ==
    /\ ppc = "input" /\ raw_text \in Inputs /\ output = NoOutput
    /\ MidiStart /\ SchedIdle /\ FrameIdle

ParseSegment ==
    /\ ppc = "input"
    /\ output' = parse_dynamic_segment(raw_text)
    /\ ppc' = "parsed"
    /\ UNCHANGED raw_text
    /\ UNCHANGED <<midiVars, schedVars, frameVars>>

NextParse == ParseSegment

SpecParse == InitParse /\ [][NextParse]_vars

(***************************************************************************)
(* generate_lyric_video_v2: lyric file, event scheduler, master timeline   *)
(***************************************************************************)
\* one second, half a second and a tenth of a second in time units
SecUnit == 1000000 * TicksPerBeat
HalfSec == SecUnit \div 2
TenthSec == SecUnit \div 10

\* for line in f: non-blank lines are stripped and split on "/"
ParseLyricLine(line) ==
    IF Strip(line) # <<>> THEN SplitAt(Strip(line), "/", <<>>, <<>>) ELSE <<>>

ParseLyrics(lines) == [i \in 1..Len(lines) |-> ParseLyricLine(lines[i])]

ClearLineEvent(time, idx) ==
    [time |-> time, type |-> "clear_line", data |-> [line_idx |-> idx]]

\* the char event of one segment bound to current_note; note_ptr is kept in
\* the event as an observer of the binding
CharEvent(raw_segment_text, current_note, idx, segment_idx_in_line, ptr) ==
    LET parsed_dynamic_info == parse_dynamic_segment(raw_segment_text)
    IN [time |-> current_note.time_sec, type |-> "char",
        data |-> [original_segment_text |-> raw_segment_text,
                  text_for_layout |-> parsed_dynamic_info.text_for_layout,
                  is_dynamic |-> parsed_dynamic_info.is_dynamic,
                  sub_segments_timed |-> parsed_dynamic_info.sub_segments_timed,
                  velocity |-> current_note.velocity,
                  line_idx |-> idx,
                  segment_idx_in_line |-> segment_idx_in_line,
                  pitch |-> current_note.pitch,
                  duration_ticks |-> current_note.duration_ticks,
                  note_start_time_sec |-> current_note.time_sec,
                  note_duration_sec |-> current_note.duration_sec,
                  note_ptr |-> ptr]]

NotePtrKept(ptr) == ptr

\* note_ptr += 1
NextNotePtr(ptr) == ptr + 1

\* for raw_segment_text in line_raw_segments: stops when the notes run out
RECURSIVE ScheduleSegments(_, _, _, _, _, _)
ScheduleSegments(segs, notes, idx, segment_idx_in_line, ptr, events) ==
    IF segment_idx_in_line >= Len(segs) \/ ptr >= Len(notes)
    THEN [events |-> events, note_ptr |-> ptr]
    ELSE ScheduleSegments(segs, notes, idx, segment_idx_in_line + 1, NextNotePtr(ptr),
             Append(events, CharEvent(segs[segment_idx_in_line + 1], notes[ptr + 1],
                                      idx, segment_idx_in_line, ptr)))

RECURSIVE MaxOf(_, _)
MaxOf(seq, least) ==
    IF seq = <<>> THEN least ELSE Max(Head(seq), MaxOf(Tail(seq), least))

EventTimes(events) == [i \in 1..Len(events) |-> events[i].time]
EventLineIdx(events) == [i \in 1..Len(events) |-> events[i].data.line_idx]
CharEvents(events) == SelectSeq(events, LAMBDA ev : ev.type # "clear_line")

\* the trailing clear_line one line beyond the last used
WithFinalClear(events, total) ==
    IF events = <<>> THEN events
    ELSE LET non_clear_evs == CharEvents(events)
             last_lyric_time ==
                 IF non_clear_evs # <<>>
                 THEN MaxOf(Tail(EventTimes(non_clear_evs)), Head(EventTimes(non_clear_evs)))
                 ELSE 0
             max_line_idx == MaxOf(EventLineIdx(events), -1)
             final_clear_time == Max(last_lyric_time + HalfSec, total + TenthSec)
         IN IF max_line_idx >= 0
            THEN Append(events, ClearLineEvent(final_clear_time, max_line_idx + 1))
            ELSE events

TimelineKeysNoPriority(events) ==
    [i \in 1..Len(events) |-> <<events[i].time, 0>>]

\* key=lambda x: (x['time'], 0 if x['type'] == 'clear_line' else 1)
TimelineKeys(events) ==
    [i \in 1..Len(events) |->
        <<events[i].time, IF events[i].type = "clear_line" THEN 0 ELSE 1>>]

(***************************************************************************)
(* Scheduling run: notes as extracted, sorted, bound to the lyric lines    *)
(***************************************************************************)
NoteTimes == {0, SecUnit}
NoteChoices == [time_sec : NoteTimes, duration_sec : {SecUnit}, duration_ticks : {960},
                pitch : Pitches, velocity : {64}]
NoteLists == UNION {[1..n -> NoteChoices] : n \in 0..MaxNotes}
TimeOrdered(notes) ==
    \A i \in 1..(Len(notes) - 1) : notes[i].time_sec <= notes[i + 1].time_sec

LineTexts == {<<" ">>, <<"a">>, <<"a", "/", "b">>,
              <<"-", "-", "-", "a", "/", "a", "|", "b", "/">>,
              <<"-", "-", "-", "a", "b", "/", "b">>}
LyricFiles == UNION {[1..n -> LineTexts] : n \in 0..MaxLines}

\* mid.length, the time of the last message of the longest track
MidiLengths == {0, SecUnit, 2 * SecUnit}

\* after the track walk, before timed_notes.sort
SchedStart ==
    /\ ParseIdle
    /\ mpc = "tracks" /\ track_idx = 0 /\ pending = <<>> /\ track_closed = FALSE
    /\ n_msgs = 0 /\ msg = NoMsg
    /\ abs_tick_track = 0 /\ abs_sec_track = 0 /\ active_notes_in_track = EmptyMap
    /\ current_tempo_track = DefaultTempo /\ current_tempo_global = DefaultTempo
    /\ last_note_actual_end_map = EmptyMap /\ all_processed_notes = <<>>
    /\ delta_sec_msg = 0
    /\ current_tempo = DefaultTempo /\ abs_time_sec = 0 /\ abs_time_tick = 0
    /\ active_notes_on_track = EmptyMap /\ delta_sec = 0
    /\ timed_notes \in NoteLists
    /\ timed_tracks = [i \in 1..Len(timed_notes) |-> 0]
    /\ note_tracks = <<>> /\ note_on_ticks = <<>> /\ note_off_ticks = <<>>
    /\ on_seen = [p \in Pitches |-> <<>>] /\ off_seen = [p \in Pitches |-> <<>>]
    /\ tempo_in_track = 0 /\ tempo_in_file = 0 /\ lead_tempo = 0
    /\ spc = "idle" /\ lyrics_file \in LyricFiles
    /\ note_events_with_full_duration_info = <<>> /\ total_midi_duration_sec = 0
    /\ parsed_lyrics = <<>> /\ line_idx = 0 /\ note_ptr = 0 /\ final_events = <<>>

InitSched == SchedStart /\ FrameIdle

\* play_note_ons: the note-on messages of mid.play(), in time order, none
\* later than the end of the file
PlayNoteOns(length) ==
    {ons \in UNION {[1..n -> [time_sec : NoteTimes, pitch : {60}, velocity : {64}]] :
                      n \in 0..MaxFallbackNotes} :
        /\ TimeOrdered(ons)
        /\ \A i \in 1..Len(ons) : ons[i].time_sec <= length}

\* the fallback note of the i-th note-on: it lasts until the next note-on, or
\* until the end of the file, or 0.2 s, and at least 0.01 s; its ticks are
\* taken at the default tempo (a file without set_tempo)
FallbackNote(play_note_ons, i, total) ==
    LET ev_p == play_note_ons[i]
        duration_s_fb ==
            IF i < Len(play_note_ons) THEN play_note_ons[i + 1].time_sec - ev_p.time_sec
            ELSE IF total > ev_p.time_sec THEN total - ev_p.time_sec
            ELSE SecUnit \div 5
        duration_t_fb == Max(MinSec, duration_s_fb) \div DefaultTempo
    IN [time_sec |-> ev_p.time_sec, duration_sec |-> Max(MinSec, duration_s_fb),
        duration_ticks |-> Max(1, IF duration_t_fb > 0 THEN duration_t_fb
                                  ELSE TicksPerBeat \div 10),
        pitch |-> ev_p.pitch, velocity |-> ev_p.velocity]

FallbackNotes(play_note_ons, total) ==
    [i \in 1..Len(play_note_ons) |-> FallbackNote(play_note_ons, i, total)]

\* mido.MidiFile(midi_path) raises: the error is logged and the function returns
MidiFileError ==
    /\ mpc = "tracks" /\ spc = "idle" /\ fpc = "idle"
    /\ ~midi_readable
    /\ logged' = logged \cup {<<"error", "midi_unreadable">>}
    /\ fpc' = "error"
    /\ UNCHANGED <<loopVars, runVars, parseVars, midiVars, schedVars>>

\* the sorted notes become the note list and total_midi_duration_sec is
\* mid.length; the mid.play() fallback runs when there are no notes; the
\* lyric file is read (an unreadable one is logged and the function
\* returns); final_events = []; note_ptr = 0
ReadLyrics ==
    /\ mpc = "done" /\ spc = "idle" /\ fpc = "idle"
    /\ midi_readable
    /\ \E length \in MidiLengths :
         \E notes \in IF timed_notes # <<>> THEN {timed_notes}
                       ELSE {FallbackNotes(ons, length) : ons \in PlayNoteOns(length)} :
             /\ note_events_with_full_duration_info' = notes
             /\ total_midi_duration_sec' = length
             /\ logged' = logged
                    \cup (IF timed_notes = <<>>
                          THEN {<<"warning", "fallback">>} ELSE {})
                    \cup (IF timed_notes = <<>> /\ notes = <<>>
                          THEN {<<"error", "no_notes_extracted">>} ELSE {})
                    \cup (IF ~lyrics_readable
                          THEN {<<"error", "lyrics_unreadable">>} ELSE {})
                    \cup (IF lyrics_readable /\ ParseLyrics(lyrics_file) = <<>>
                          THEN {<<"warning", "no_lyrics">>} ELSE {})
                    \cup (IF lyrics_readable /\ notes = <<>>
                                /\ ParseLyrics(lyrics_file) # <<>>
                          THEN {<<"warning", "no_notes">>} ELSE {})
    /\ parsed_lyrics' = IF lyrics_readable THEN ParseLyrics(lyrics_file) ELSE <<>>
    /\ final_events' = <<>> /\ note_ptr' = 0 /\ line_idx' = 0
    /\ spc' = IF lyrics_readable THEN "lines" ELSE "idle"
    /\ fpc' = IF lyrics_readable THEN fpc ELSE "error"
    /\ UNCHANGED <<lyrics_file, parseVars, midiVars, loopVars, runVars>>

\* one iteration of: for line_idx, line_raw_segments in enumerate(parsed_lyrics)
ScheduleLine ==
    /\ spc = "lines" /\ fpc = "idle"
    /\ line_idx < Len(parsed_lyrics)
    /\ LET notes == note_events_with_full_duration_info
           line_raw_segments == parsed_lyrics[line_idx + 1]
       IN IF (notes = <<>> \/ note_ptr >= Len(notes)) /\ (notes # <<>> /\ parsed_lyrics # <<>>)
          THEN /\ spc' = "break"
               /\ logged' = logged \cup {<<"warning", "line_short">>}
               /\ UNCHANGED <<line_idx, note_ptr, final_events>>
          ELSE LET with_clear ==
                       IF note_ptr < Len(notes)
                            /\ (line_raw_segments # <<>> \/ line_idx > 0
                                    \/ (line_idx = 0 /\ parsed_lyrics # <<>>))
                       THEN Append(final_events,
                                   ClearLineEvent(notes[note_ptr + 1].time_sec, line_idx))
                       ELSE final_events
                   done == ScheduleSegments(line_raw_segments, notes, line_idx, 0,
                                            note_ptr, with_clear)
               IN /\ final_events' = done.events
                  /\ note_ptr' = done.note_ptr
                  /\ line_idx' = line_idx + 1
                  /\ logged' = logged
                         \cup (IF done.note_ptr - note_ptr < Len(line_raw_segments)
                               THEN {<<"warning", "mid_line_short">>} ELSE {})
                  /\ UNCHANGED spc
    /\ UNCHANGED <<lyrics_file, note_events_with_full_duration_info,
                   total_midi_duration_sec, parsed_lyrics, parseVars, midiVars,
                   renderVars>>

\* after the line loop: trailing clear_line and final_events.sort
BuildTimeline ==
    /\ fpc = "idle"
    /\ spc = "break" \/ (spc = "lines" /\ line_idx >= Len(parsed_lyrics))
    /\ LET events == WithFinalClear(final_events, total_midi_duration_sec)
       IN final_events' = SortedBy(events, TimelineKeys(events))
    /\ spc' = "timeline"
    /\ UNCHANGED <<lyrics_file, note_events_with_full_duration_info,
                   total_midi_duration_sec, parsed_lyrics, line_idx, note_ptr,
                   parseVars, midiVars, frameVars>>

NextSched == FinishWalk \/ ReadLyrics \/ ScheduleLine \/ BuildTimeline

SpecSched == InitSched /\ [][NextSched]_vars

(***************************************************************************)
(* generate_lyric_video_v2: frame count, layout and visible text           *)
(***************************************************************************)
\* the parameters the runs leave at the defaults of the signature
Width == 1920
CharSpacing == 10
DurationPaddingThresholdTicks == 240
DurationPaddingScaleDivisor == 10   \* duration_padding_scale_per_tick = 0.1

\* actual_line_anchor_x = width // 2
ActualLineAnchorX == Width \div 2

\* one frame in time units; fps divides the time units of a second
FrameUnit(f) == SecUnit \div f

CurrentVideoTimeOfNextFrame(frame, f) == (frame + 1) * FrameUnit(f)

\* current_video_time = frame_num / float(fps)
CurrentVideoTime(frame, f) == frame * FrameUnit(f)

\* int(duration * fps) for a duration that is not negative
IntFrames(duration, f) == duration \div FrameUnit(f)

VideoLengthNotExtended(total, events, notes, lyrics, f) ==
    [frames |-> IntFrames(total, f), duration |-> total,
     abort |-> IntFrames(total, f) <= 0,
     logs |-> IF IntFrames(total, f) <= 0 THEN {<<"error", "no_frames">>} ELSE {}]

\* video_total_duration_sec_final and video_total_frames; abort is the return
\* of the two error branches
VideoLength(total, events, notes, lyrics, f) ==
    IF IntFrames(total, f) > 0
    THEN [frames |-> IntFrames(total, f), duration |-> total, abort |-> FALSE,
          logs |-> {}]
    ELSE IF total <= 0 /\ notes = <<>>
    THEN [frames |-> IntFrames(total, f), duration |-> total, abort |-> TRUE,
          logs |-> {<<"error", "zero_frames">>}]
    ELSE LET warn == IF total <= 0 /\ notes # <<>>
                     THEN {<<"warning", "zero_length_with_notes">>} ELSE {}
         IN IF events # <<>>
            THEN LET max_event_time == MaxOf(EventTimes(events), events[1].time)
                     duration == Max(total, max_event_time + HalfSec)
                     frames == IF IntFrames(duration, f) < 1
                                    /\ (notes # <<>> \/ lyrics # <<>>)
                               THEN 1 ELSE IntFrames(duration, f)
                 IN [frames |-> frames, duration |-> duration,
                     abort |-> frames <= 0,
                     logs |-> warn \cup {<<"info", "length_adjusted">>}
                                  \cup (IF frames <= 0
                                        THEN {<<"error", "no_frames">>} ELSE {})]
            ELSE [frames |-> IntFrames(total, f), duration |-> total,
                  abort |-> TRUE, logs |-> warn \cup {<<"error", "no_frames">>}]

\* _get_text_width: the advance of a text in the font of the run; the glyph
\* advances add up and an empty text has width 0
CharWidth(c) == IF c = "a" THEN 10 ELSE IF c = "b" THEN 14 ELSE 8

RECURSIVE _get_text_width(_)
_get_text_width(text) ==
    IF text = <<>> THEN 0 ELSE CharWidth(Head(text)) + _get_text_width(Tail(text))

\* max(0, int((ticks - threshold) * scale)) when the note is over the threshold
TrailingPadding(duration_ticks) ==
    IF duration_ticks > DurationPaddingThresholdTicks
    THEN Max(0, (duration_ticks - DurationPaddingThresholdTicks)
                    \div DurationPaddingScaleDivisor)
    ELSE 0

RInt(n) == <<n, 1>>

\* the start of a line of the given width against the anchor
AlignedStart(align, total_width) ==
    IF align = "left" THEN RInt(ActualLineAnchorX)
    ELSE IF align = "right" THEN RInt(ActualLineAnchorX - total_width)
    ELSE RSub(RInt(ActualLineAnchorX), Rat(total_width, 2))

LayoutTextAsWritten(ed_raw) == ed_raw.original_segment_text

\* 'text': ed_raw['text_for_layout']
LayoutText(ed_raw) == ed_raw.text_for_layout

\* the char events of the line in the order of segment_idx_in_line
CharEventsOfLine(events, line) ==
    LET raw == SelectSeq(events, LAMBDA ev : ev.type = "char" /\ ev.data.line_idx = line)
    IN SortedBy([i \in 1..Len(raw) |-> raw[i].data],
                [i \in 1..Len(raw) |-> <<raw[i].data.segment_idx_in_line, 0>>])

RECURSIVE LayoutWidth(_, _, _)
LayoutWidth(list, idx, total_calculated_width) ==
    IF idx > Len(list) THEN total_calculated_width
    ELSE LET is_last_segment_in_line == idx = Len(list)
         IN LayoutWidth(list, idx + 1,
                total_calculated_width + _get_text_width(LayoutText(list[idx]))
                  + (IF ~is_last_segment_in_line
                     THEN TrailingPadding(list[idx].duration_ticks) ELSE 0)
                  + (IF ~is_last_segment_in_line /\ Len(list) > 1
                     THEN CharSpacing ELSE 0))

_calculate_fixed_layout_for_line_v2(segment_event_data_list, align) ==
    IF segment_event_data_list = <<>>
    THEN [line_start_x_on_canvas |-> RInt(ActualLineAnchorX),
          total_width_for_alignment |-> 0]
    ELSE LET total_calculated_width == LayoutWidth(segment_event_data_list, 1, 0)
         IN [line_start_x_on_canvas |-> AlignedStart(align, total_calculated_width),
             total_width_for_alignment |-> total_calculated_width]

(***************************************************************************)
(* generate_lyric_video_v2: the frame loop                                 *)
(***************************************************************************)
\* an empty slot of active_segment_event_data (None)
NoData == [line_idx |-> -1]
IsActive(ed) == ed.line_idx >= 0

\* 1e-6 s in time units
TinyDuration == SecUnit \div 1000000

ProgressRatioFromZero(t, note_start_s, note_dur_s) ==
    IF t <= 0 THEN R0 ELSE IF t >= note_dur_s THEN R1 ELSE Rat(t, note_dur_s)

\* progress_ratio = max(0.0, min(1.0, time_into_note / note_dur_s))
ProgressRatio(t, note_start_s, note_dur_s) ==
    LET time_into_note == t - note_start_s
    IN IF time_into_note <= 0 THEN R0
       ELSE IF time_into_note >= note_dur_s THEN R1
       ELSE Rat(time_into_note, note_dur_s)

\* for txt_part, s_ratio, e_ratio in sub_segments_timed: the first match, and
\* the fallback when nothing matches
RECURSIVE MatchSubSegment(_, _, _)
MatchSubSegment(subs, k, progress_ratio) ==
    IF k > Len(subs)
    THEN IF subs = <<>> THEN <<>>
         ELSE IF RLe(R1, progress_ratio) THEN subs[Len(subs)][1]
         ELSE IF RLe(progress_ratio, R0) THEN subs[1][1]
         ELSE subs[Len(subs)][1]
    ELSE LET txt_part == subs[k][1]
             s_ratio == subs[k][2]
             e_ratio == subs[k][3]
         IN IF s_ratio = R0 /\ e_ratio = R0 /\ progress_ratio = R0 THEN txt_part
            ELSE IF RLe(s_ratio, progress_ratio) /\ RLt(progress_ratio, e_ratio)
            THEN txt_part
            ELSE IF e_ratio = R1 /\ progress_ratio = R1 THEN txt_part
            ELSE MatchSubSegment(subs, k + 1, progress_ratio)

\* text_to_render_this_frame of an active segment
TextToRender(ed, t) ==
    IF ed.is_dynamic
    THEN IF ed.note_duration_sec <= TinyDuration
         THEN IF ed.sub_segments_timed # <<>>
              THEN ed.sub_segments_timed[Len(ed.sub_segments_timed)][1] ELSE <<>>
         ELSE MatchSubSegment(ed.sub_segments_timed, 1,
                  ProgressRatio(t, ed.note_start_time_sec, ed.note_duration_sec))
    ELSE ed.text_for_layout

EventDueStrictly(event, t) == event.time < t

\* final_events[current_event_ptr]['time'] <= current_video_time
EventDue(event, t) == event.time <= t

AnyLineOnScreen(st, event) == TRUE

\* if event_data_from_final_event['line_idx'] == current_line_idx_on_screen
LineOnScreen(st, event) == event.data.line_idx = st.line

\* the body of the while loop for one event; st holds the loop's variables
ProcessEvent(st, event, mode, align) ==
    IF event.type = "clear_line"
    THEN LET clear_line_target_idx == event.data.line_idx
         IN IF clear_line_target_idx > st.line \/ st.line = -1
            THEN LET n == IF 0 <= clear_line_target_idx
                               /\ clear_line_target_idx < Len(parsed_lyrics)
                            THEN Len(parsed_lyrics[clear_line_target_idx + 1]) ELSE 0
                     calc == mode = "fixed" /\ n > 0
                                /\ clear_line_target_idx \notin DOMAIN st.cache
                 IN [st EXCEPT
                       !.line = clear_line_target_idx,
                       !.num_max = n,
                       !.active = [i \in 1..n |-> NoData],
                       !.cache = IF calc
                                 THEN MapPut(@, clear_line_target_idx,
                                        _calculate_fixed_layout_for_line_v2(
                                            CharEventsOfLine(final_events,
                                                clear_line_target_idx), align))
                                 ELSE @,
                       !.layout_runs = IF calc THEN Append(@, clear_line_target_idx)
                                       ELSE @]
            ELSE st
    ELSE IF LineOnScreen(st, event)
              /\ 0 <= event.data.segment_idx_in_line
              /\ event.data.segment_idx_in_line < st.num_max
         THEN [st EXCEPT !.active[event.data.segment_idx_in_line + 1] = event.data]
         ELSE st

\* while current_event_ptr < len(final_events) and the event is due
RECURSIVE ConsumeEvents(_, _, _, _)
ConsumeEvents(st, t, mode, align) ==
    IF st.ptr < Len(final_events) /\ EventDue(final_events[st.ptr + 1], t)
    THEN ConsumeEvents(
             [ProcessEvent(st, final_events[st.ptr + 1], mode, align) EXCEPT
                 !.ptr = @ + 1, !.consumed = Append(@, st.ptr + 1),
                 !.seen = Append(@, st.line)],
             t, mode, align)
    ELSE st

\* current_line_prepared_segments_for_draw: None for a slot without its event
Prepared(active, t) ==
    [i \in 1..Len(active) |->
        IF IsActive(active[i])
        THEN [shown |-> TRUE, text |-> TextToRender(active[i], t),
              segment_trailing_padding |-> TrailingPadding(active[i].duration_ticks)]
        ELSE [shown |-> FALSE, text |-> <<>>, segment_trailing_padding |-> 0]]

\* idx_of_last_segment_to_draw_this_frame, counted from 1 (0: none)
RECURSIVE LastToDraw(_, _)
LastToDraw(prepared, i) ==
    IF i = 0 THEN 0 ELSE IF prepared[i].shown THEN i ELSE LastToDraw(prepared, i - 1)

\* current_dynamic_line_total_width_for_alignment
RECURSIVE DynamicWidth(_, _, _)
DynamicWidth(prepared, k, last) ==
    IF k > last THEN 0
    ELSE (IF prepared[k].shown
          THEN _get_text_width(prepared[k].text)
                 + (IF k < Len(prepared) THEN prepared[k].segment_trailing_padding ELSE 0)
                 + (IF k < last THEN CharSpacing ELSE 0)
          ELSE 0) + DynamicWidth(prepared, k + 1, last)

\* is_progressive_type of the drawing pass
IsProgressiveType(ed) ==
    LET original_raw_text_stripped == Strip(ed.original_segment_text)
    IN /\ ed.is_dynamic
       /\ StartsWith(original_raw_text_stripped, Dashes)
       /\ ~(StartsWith(original_raw_text_stripped, BackTicks)
              /\ EndsWith(original_raw_text_stripped, BackTicks))

\* the advance of current_x_to_draw over one drawn segment, spacing included
SegmentAdvance(render_info, ed, i_draw, last, num_max) ==
    LET effective_padding == IF i_draw < num_max
                             THEN render_info.segment_trailing_padding ELSE 0
        basis == IF IsProgressiveType(ed) THEN ed.text_for_layout
                 ELSE render_info.text
        padding_per_char == IF Len(basis) > 0 /\ effective_padding > 0
                            THEN Rat(effective_padding, Len(basis)) ELSE R0
        glyphs == IF render_info.text # <<>>
                  THEN RAdd(RInt(_get_text_width(render_info.text)),
                            RMulInt(Len(render_info.text), padding_per_char))
                  ELSE RInt(effective_padding)
    IN RAdd(glyphs, IF i_draw < last THEN RInt(CharSpacing) ELSE R0)

\* the drawing pass: for every slot, whether it is drawn, its text and the
\* x of its first glyph
RECURSIVE DrawSegments(_, _, _, _, _, _)
DrawSegments(prepared, active, i_draw, last, current_x_to_draw, acc) ==
    IF i_draw > Len(prepared) THEN acc
    ELSE IF i_draw <= last /\ prepared[i_draw].shown
    THEN DrawSegments(prepared, active, i_draw + 1, last,
             RAdd(current_x_to_draw,
                  SegmentAdvance(prepared[i_draw], active[i_draw], i_draw, last,
                                 Len(prepared))),
             Append(acc, [shown |-> TRUE, text |-> prepared[i_draw].text,
                          x |-> current_x_to_draw]))
    ELSE DrawSegments(prepared, active, i_draw + 1, last, current_x_to_draw,
             Append(acc, [shown |-> FALSE, text |-> <<>>, x |-> R0]))

\* current_x_to_draw at the start of the drawing pass
LineStartX(prepared, last, mode, align, cache, line) ==
    IF mode = "dynamic" THEN AlignedStart(align, DynamicWidth(prepared, 1, last))
    ELSE IF line \in DOMAIN cache THEN cache[line].line_start_x_on_canvas
    ELSE RInt(ActualLineAnchorX)

\* the frame rates, placement modes and alignments of the runs
FpsChoices == {2, 3}
PlacementModes == {"dynamic", "fixed"}
HAligns == {"center", "right"}

\* runs whose notes were extracted in time order and have one pitch (the
\* frame loop does not look at the pitch while the pitch scales are 0)
InitVideo ==
    /\ SchedStart /\ TimeOrdered(timed_notes)
    /\ \A i \in 1..Len(timed_notes) : timed_notes[i].pitch = 60
    /\ \E f \in FpsChoices, mode \in PlacementModes, align \in HAligns :
          FrameStart(f, mode, align)

\* progress_callback(frame_num, video_total_frames)
FramesDoneFromZero(frame) == frame

\* progress_callback(frame_num + 1, video_total_frames)
FramesDone(frame) == frame + 1

\* video_writer.release() and video_writer_test.release(), on the writer w
Release(ws, w) == [ws EXCEPT ![w].releases = @ + 1]

\* video_writer.write(frame_bgr)
Write(ws, w) == [ws EXCEPT ![w].frames = @ + 1]

\* video_writer = None before the loop over the fourcc options
NoWriter ==
    [writers |-> writers, video_writer |-> 0, video_writer_test |-> video_writer_test,
     raised |-> FALSE, logs |-> {}]

\* the loop over the fourcc options, from option i on: a writer that opens
\* ends the loop, one that does not is released, and when the constructor
\* raises the except branch releases video_writer_test, which is the writer
\* of the option before, or unbound (raised: the UnboundLocalError leaves
\* the function)
RECURSIVE OpenWriters(_, _, _)
OpenWriters(results, i, enc) ==
    IF i > Len(results) THEN enc
    ELSE IF results[i] = "raises"
    THEN IF enc.video_writer_test = 0
         THEN [enc EXCEPT !.raised = TRUE,
                          !.logs = @ \cup {<<"warning", "fourcc_raised">>}]
         ELSE OpenWriters(results, i + 1,
                  [enc EXCEPT !.writers = Release(@, enc.video_writer_test),
                              !.logs = @ \cup {<<"warning", "fourcc_raised">>}])
    ELSE LET made == Append(enc.writers,
                            [opened |-> results[i] = "opened", releases |-> 0,
                             frames |-> 0])
             video_writer_test_new == Len(made)
         IN IF results[i] = "opened"
            THEN [enc EXCEPT !.writers = made,
                             !.video_writer_test = video_writer_test_new,
                             !.video_writer = video_writer_test_new,
                             !.logs = @ \cup {<<"info", "writer_opened">>}]
            ELSE OpenWriters(results, i + 1,
                     [enc EXCEPT !.writers = Release(made, video_writer_test_new),
                                 !.video_writer_test = video_writer_test_new,
                                 !.logs = @ \cup {<<"warning", "fourcc_failed">>}])

\* after the timeline is built: the frame count, the video writer and the
\* font probe, each with its return (cv2 is taken to have VideoWriter_fourcc
\* and the output directory to exist)
PrepareVideo ==
    /\ spc = "timeline" /\ fpc = "idle"
    /\ LET length == VideoLength(total_midi_duration_sec, final_events,
                                 note_events_with_full_duration_info,
                                 parsed_lyrics, fps)
           enc == IF length.abort THEN NoWriter
                  ELSE OpenWriters(codec_results, 1, NoWriter)
           reached == ~length.abort /\ ~enc.raised
           none_opened == reached /\ enc.video_writer = 0
           font_fails == reached /\ enc.video_writer # 0 /\ ~font_usable
       IN /\ video_total_frames' = length.frames
          /\ video_total_duration_sec_final' = length.duration
          /\ writers' = IF font_fails THEN Release(enc.writers, enc.video_writer)
                        ELSE enc.writers
          /\ video_writer' = enc.video_writer
          /\ video_writer_test' = enc.video_writer_test
          /\ logged' = logged \cup length.logs \cup enc.logs
                 \cup (IF none_opened THEN {<<"error", "all_codecs_failed">>} ELSE {})
                 \cup (IF font_fails THEN {<<"error", "font">>} ELSE {})
                 \cup (IF reached /\ ~none_opened /\ ~font_fails
                       THEN {<<"info", "loop_start">>} ELSE {})
          /\ fpc' = IF length.abort \/ none_opened \/ font_fails THEN "error"
                    ELSE IF enc.raised THEN "raised" ELSE "frames"
    /\ UNCHANGED <<fps, line_placement_mode, line_h_align, frame_num,
                   current_event_ptr, current_line_idx_on_screen,
                   active_segment_event_data, num_max_segments_in_current_line,
                   fixed_layout_cache, drawn, start_x_used, consumed, layout_runs,
                   line_when_consumed, progress_calls>>
    /\ UNCHANGED <<envVars, threadVars, uiVars, parseVars, midiVars, schedVars>>

\* one iteration of: for frame_num in range(video_total_frames); a frame of
\* the wrong size or a write that raises is logged, the writer is released
\* and the function returns; the loop does not look at the thread's
\* interruption request
RenderFrame ==
    /\ fpc = "frames" /\ frame_num < video_total_frames
    /\ LET t == CurrentVideoTime(frame_num, fps)
           st == ConsumeEvents(
                    [ptr |-> current_event_ptr, line |-> current_line_idx_on_screen,
                     active |-> active_segment_event_data,
                     num_max |-> num_max_segments_in_current_line,
                     cache |-> fixed_layout_cache, consumed |-> consumed,
                     layout_runs |-> layout_runs, seen |-> line_when_consumed],
                    t, line_placement_mode, line_h_align)
           prepared == Prepared(st.active, t)
           last == LastToDraw(prepared, Len(prepared))
           fault == IF frame_fault[2] = frame_num THEN frame_fault[1] ELSE "none"
       IN /\ current_event_ptr' = st.ptr
          /\ current_line_idx_on_screen' = st.line
          /\ active_segment_event_data' = st.active
          /\ num_max_segments_in_current_line' = st.num_max
          /\ fixed_layout_cache' = st.cache
          /\ consumed' = st.consumed
          /\ layout_runs' = st.layout_runs
          /\ line_when_consumed' = st.seen
          /\ IF fault = "none"
             THEN /\ drawn' = DrawSegments(prepared, st.active, 1, last,
                                  LineStartX(prepared, last, line_placement_mode,
                                             line_h_align, st.cache, st.line), <<>>)
                  /\ start_x_used' =
                         IF last > 0
                         THEN <<LineStartX(prepared, last, line_placement_mode,
                                           line_h_align, st.cache, st.line)>>
                         ELSE <<>>
                  /\ progress_calls' = Append(progress_calls,
                                              <<FramesDone(frame_num), video_total_frames>>)
                  /\ logged' = logged
                         \cup (IF (frame_num + 1) % (fps * 10) = 0
                               THEN {<<"info", "processing">>} ELSE {})
                  /\ frame_num' = frame_num + 1
                  /\ writers' = Write(writers, video_writer)
                  /\ UNCHANGED fpc
             ELSE /\ writers' = Release(writers, video_writer)
                  /\ logged' = logged \cup {<<"error", IF fault = "size"
                                                      THEN "frame_size"
                                                      ELSE "frame_write">>}
                  /\ fpc' = "error"
                  /\ UNCHANGED <<drawn, start_x_used, progress_calls, frame_num>>
    /\ UNCHANGED <<fps, line_placement_mode, line_h_align, video_total_frames,
                   video_total_duration_sec_final, video_writer, video_writer_test>>
    /\ UNCHANGED <<envVars, threadVars, uiVars, parseVars, midiVars, schedVars>>

\* after the loop: video_writer.release() (the size of the file written is
\* not modelled)
ReleaseVideo ==
    /\ fpc = "frames" /\ frame_num >= video_total_frames
    /\ fpc' = "done"
    /\ writers' = Release(writers, video_writer)
    /\ logged' = logged \cup {<<"info", "written">>, <<"info", "complete">>}
    /\ UNCHANGED <<loopVars, envVars, video_writer, video_writer_test,
                   threadVars, uiVars>>
    /\ UNCHANGED <<parseVars, midiVars, schedVars>>

NextVideo ==
    FinishWalk \/ ReadLyrics \/ ScheduleLine \/ BuildTimeline
        \/ PrepareVideo \/ RenderFrame \/ ReleaseVideo

SpecVideo == InitVideo /\ [][NextVideo]_vars

\* runs at 30 fps on the MIDI file with pitch 60 at 0 s and pitch 64 at 1 s,
\* each lasting 1 s
TwoNotes ==
    <<[time_sec |-> 0, duration_sec |-> SecUnit, duration_ticks |-> 960,
       pitch |-> 60, velocity |-> 64],
      [time_sec |-> SecUnit, duration_sec |-> SecUnit, duration_ticks |-> 960,
       pitch |-> 64, velocity |-> 64]>>

InitEndToEnd ==
    /\ SchedStart /\ timed_notes = TwoNotes
    /\ \E mode \in PlacementModes, align \in HAligns : FrameStart(30, mode, align)

SpecEndToEnd == InitEndToEnd /\ [][NextVideo]_vars

(***************************************************************************)
(* VideoGenThread.run and closeEvent: a run with its failures              *)
(***************************************************************************)
MaxFaultFrame == 1

Outcomes == {"opened", "closed", "raises"}

\* what the options give up to the first one that opens; the loop does not
\* reach the options after it
CodecResults ==
    {r \in [1..FourccOptions -> Outcomes] :
        \A i, j \in 1..FourccOptions : (i < j /\ r[i] = "opened") => r[j] = "opened"}

FrameFaults ==
    {<<"none", 0>>} \cup ({"size", "write"} \X (0..MaxFaultFrame))

RunNotes ==
    {<<>>, <<[time_sec |-> 0, duration_sec |-> SecUnit, duration_ticks |-> 960,
              pitch |-> 60, velocity |-> 64]>>}
RunLyrics == {<<>>, << <<"a">> >>}

\* a run at 2 fps with any of the failures; nothing was extracted from a
\* MIDI file that cannot be read
InitRun ==
    /\ SchedStart /\ timed_notes \in RunNotes /\ lyrics_file \in RunLyrics
    /\ LoopStart(2, "dynamic", "center") /\ RunStart /\ UiIdle
    /\ midi_readable \in BOOLEAN /\ lyrics_readable \in BOOLEAN
    /\ font_usable \in BOOLEAN
    /\ codec_results \in CodecResults
    /\ frame_fault \in FrameFaults
    /\ midi_readable \/ timed_notes = <<>>

\* run, after generate_lyric_video_v2 returned:
\* self.generation_finished.emit(True, self.params['output_video_path'])
EmitFinished ==
    /\ fpc \in {"done", "error"} /\ generation_finished = <<>>
    /\ generation_finished' = Append(generation_finished, TRUE)
    /\ UNCHANGED <<fpc, loopVars, envVars, encVars, interruption_requested, uiVars,
                   logged, parseVars, midiVars, schedVars>>

\* run, except Exception: self.log_message is a Signal of the thread and
\* calling it raises TypeError, so that generation_finished.emit(False, ...)
\* is not reached
RunRaises ==
    /\ fpc = "raised"
    /\ fpc' = "crashed"
    /\ UNCHANGED <<loopVars, runVars, logged, parseVars, midiVars, schedVars>>

\* the thread is in run and has not emitted generation_finished
ThreadRunning ==
    fpc \in {"idle", "frames", "done", "error", "raised"} /\ generation_finished = <<>>

\* closeEvent, confirmed: thread_attr.requestInterruption() and wait(1000)
RequestInterruption ==
    /\ ThreadRunning /\ ~interruption_requested
    /\ interruption_requested' = TRUE
    /\ UNCHANGED <<fpc, loopVars, envVars, encVars, generation_finished, uiVars,
                   logged, parseVars, midiVars, schedVars>>

\* closeEvent, the wait timed out: thread_attr.terminate()
TerminateThread ==
    /\ ThreadRunning /\ interruption_requested
    /\ fpc' = "terminated"
    /\ UNCHANGED <<loopVars, runVars, logged, parseVars, midiVars, schedVars>>

NextRun ==
    FinishWalk \/ MidiFileError \/ ReadLyrics \/ ScheduleLine \/ BuildTimeline
        \/ PrepareVideo \/ RenderFrame \/ ReleaseVideo
        \/ EmitFinished \/ RunRaises \/ RequestInterruption \/ TerminateThread

SpecRun == InitRun /\ [][NextRun]_vars

(***************************************************************************)
(* MainWindow: starting workers and handling their signals                 *)
(***************************************************************************)
MaxQueued == 2

\* the files a user can name: one that exists and one that does not
MidiPaths == {"a.mid", "b.mid", "gone.mid"}
PathExists(path) == path \in {"a.mid", "b.mid"}

\* _update_ui_states(is_generating_video, is_loading_midi)
_update_ui_states(is_generating_video, is_loading_midi) ==
    /\ loading_project_or_midi' = (is_generating_video \/ is_loading_midi)
    /\ generate_button_enabled' = ~(is_generating_video \/ is_loading_midi)
    /\ progress_bar_visible' = is_generating_video
    /\ lyrics_edit_read_only' = (is_generating_video \/ is_loading_midi)

UiFlags == <<loading_project_or_midi, generate_button_enabled, progress_bar_visible,
             lyrics_edit_read_only>>

\* the worker and the idle groups of variables
NotUi == <<parseVars, midiVars, schedVars, fpc, loopVars, envVars, encVars,
           threadVars, logged>>

\* a click on the generate button: start_video_generation; inputs_valid is
\* the result of _validate_inputs for what the widgets hold besides the MIDI
\* path
start_video_generation ==
    /\ generate_button_enabled
    /\ \E inputs_valid \in BOOLEAN :
         IF video_gen_thread = "running"
         THEN UNCHANGED uiVars
         ELSE /\ midi_path' = midi_path_edit
              /\ IF PathExists(midi_path_edit) /\ inputs_valid
                 THEN /\ video_gen_thread' = "running"
                      /\ video_workers' = video_workers + 1
                      /\ _update_ui_states(TRUE, FALSE)
                 ELSE UNCHANGED <<video_gen_thread, video_workers, UiFlags>>
              /\ UNCHANGED <<midi_load_thread, midi_path_edit,
                             generation_finished_queued, midi_finished_queued>>
    /\ UNCHANGED NotUi

\* VideoGenThread.run ends: generation_finished is emitted and queued for
\* the window
VideoGenThreadFinishes ==
    /\ video_gen_thread = "running"
    /\ generation_finished_queued < MaxQueued
    /\ video_gen_thread' = "finished"
    /\ video_workers' = video_workers - 1
    /\ generation_finished_queued' = generation_finished_queued + 1
    /\ UNCHANGED <<midi_load_thread, midi_path, midi_path_edit, UiFlags,
                   midi_finished_queued>>
    /\ UNCHANGED NotUi

\* on_generation_finished
on_generation_finished ==
    /\ generation_finished_queued > 0
    /\ generation_finished_queued' = generation_finished_queued - 1
    /\ _update_ui_states(FALSE, FALSE)
    /\ UNCHANGED <<video_gen_thread, midi_load_thread, midi_path, midi_path_edit,
                   midi_finished_queued, video_workers>>
    /\ UNCHANGED NotUi

\* a MIDI file dropped on the piano roll group: _handle_midi_file_drop and
\* _load_midi_file
_load_midi_file ==
    /\ \E midi_file_path \in MidiPaths :
         IF ~PathExists(midi_file_path)
         THEN /\ midi_path' = "" /\ midi_path_edit' = midi_file_path
              /\ IF loading_project_or_midi /\ midi_load_thread # "running"
                 THEN _update_ui_states(FALSE, FALSE)
                 ELSE UNCHANGED UiFlags
              /\ UNCHANGED midi_load_thread
         ELSE IF midi_path = midi_file_path /\ ~loading_project_or_midi
         THEN UNCHANGED <<midi_path, midi_path_edit, UiFlags, midi_load_thread>>
         ELSE /\ midi_path' = midi_file_path /\ midi_path_edit' = midi_file_path
              /\ _update_ui_states(FALSE, TRUE)
              /\ midi_load_thread' = "running"
    /\ UNCHANGED <<video_gen_thread, generation_finished_queued,
                   midi_finished_queued, video_workers>>
    /\ UNCHANGED NotUi

\* MidiLoadThread.run ends: finished is emitted and queued for the window
MidiLoadThreadFinishes ==
    /\ midi_load_thread = "running"
    /\ midi_finished_queued < MaxQueued
    /\ midi_load_thread' = "finished"
    /\ midi_finished_queued' = midi_finished_queued + 1
    /\ UNCHANGED <<video_gen_thread, midi_path, midi_path_edit, UiFlags,
                   generation_finished_queued, video_workers>>
    /\ UNCHANGED NotUi

\* _on_midi_load_finished: after _update_ui_states(is_loading_midi=False) the
\* test of loading_project_or_midi at its end is false
_on_midi_load_finished ==
    /\ midi_finished_queued > 0
    /\ midi_finished_queued' = midi_finished_queued - 1
    /\ _update_ui_states(FALSE, FALSE)
    /\ UNCHANGED <<video_gen_thread, midi_load_thread, midi_path, midi_path_edit,
                   generation_finished_queued, video_workers>>
    /\ UNCHANGED NotUi

InitUi == InitMidi

NextUi ==
    start_video_generation \/ VideoGenThreadFinishes \/ on_generation_finished
        \/ _load_midi_file \/ MidiLoadThreadFinishes \/ _on_midi_load_finished

SpecUi == InitUi /\ [][NextUi]_vars

(***************************************************************************)
(* Properties of the segment grammar parser (SpecParse)                    *)
(***************************************************************************)
Parsed == ppc = "parsed"
SubSegs == output.sub_segments_timed
Stripped == Strip(raw_text)
Slots == Split(Stripped)
HasDashPrefix(t) == Len(t) > 3 /\ SubSeq(t, 1, 3) = <<"-", "-", "-">>
WrappedLiteral(t) ==
    Len(t) >= 6 /\ SubSeq(t, 1, 3) = <<"~", "~", "~">>
        /\ SubSeq(t, Len(t) - 2, Len(t)) = <<"~", "~", "~">>

\* number of sub-segments slot k of a sequential list is expected to give
StepsOfSlot(t) == IF HasDashPrefix(t) THEN Len(t) - 3 ELSE 1

RECURSIVE StepsBefore(_, _)
StepsBefore(slots, i) ==
    IF i <= 1 THEN 0 ELSE StepsBefore(slots, i - 1) + StepsOfSlot(slots[i - 1])

\* C1: every parse returns a non-empty sub-segment list whose first start is
\* 0, whose last end is 1, with start <= end in every entry and starts that
\* never decrease along the list.
C1_RatioInvariant ==
    Parsed =>
        /\ Len(SubSegs) >= 1
        /\ SubSegs[1][2] = R0
        /\ SubSegs[Len(SubSegs)][3] = R1
        /\ \A k \in 1..Len(SubSegs) : RLe(SubSegs[k][2], SubSegs[k][3])
        /\ \A k \in 1..(Len(SubSegs) - 1) : RLe(SubSegs[k][2], SubSegs[k + 1][2])

C1_Witness ==
    Parsed /\ Len(Slots) = 2 /\ Len(SubSegs) >= 3

\* C2: a segment (no "|" in it) or a slot of a sequential list that is "---"
\* followed by content of length L >= 1 gives exactly L sub-segments; step j
\* shows the first j+1 characters of the content and spans
\* [start + j*w/L, start + (j+1)*w/L], w being 1 or the slot width 1/N.
C2_ProgressiveReveal ==
    (Parsed /\ ~WrappedLiteral(Stripped)) =>
        LET N == Len(Slots)
        IN  /\ Len(SubSegs) = StepsBefore(Slots, N + 1)
            /\ \A i \in 1..N :
                  HasDashPrefix(Slots[i]) =>
                    LET content == SubSeq(Slots[i], 4, Len(Slots[i]))
                        L == Len(content)
                        off == StepsBefore(Slots, i)
                    IN \A j \in 0..(L - 1) :
                         SubSegs[off + j + 1] =
                            <<SubSeq(content, 1, j + 1),
                              Rat((i - 1) * L + j, N * L),
                              Rat((i - 1) * L + j + 1, N * L)>>

C2_Witness ==
    Parsed /\ raw_text = <<"-", "-", "-", "a", "b", "a">> /\ Len(SubSegs) = 3

\* C3: a sequential list of N >= 2 static slots gives exactly N sub-segments
\* in slot order, slot i with its own text on [i/N, (i+1)/N], flagged dynamic.
C3_SequentialStatic ==
    (Parsed /\ ~WrappedLiteral(Stripped) /\ Len(Slots) > 1
        /\ \A i \in 1..Len(Slots) :
              ~HasDashPrefix(Slots[i]) /\ Slots[i] # <<"-", "-", "-">>) =>
        LET N == Len(Slots)
        IN  /\ output.is_dynamic
            /\ Len(SubSegs) = N
            /\ \A i \in 1..N :
                  SubSegs[i] = <<Slots[i], Rat(i - 1, N), Rat(i, N)>>

C3_Witness ==
    Parsed /\ raw_text = <<"a", "|", "b", "|", "a">> /\ Len(SubSegs) = 3

\* C4: a segment wrapped in the triple marker on both ends with length >= 6
\* gives one sub-segment on [0,1] holding the enclosed text verbatim, not
\* dynamic, whatever the enclosed text contains.
C4_LiteralPriority ==
    (Parsed /\ WrappedLiteral(Stripped)) =>
        /\ output.is_dynamic = FALSE
        /\ SubSegs = << <<SubSeq(Stripped, 4, Len(Stripped) - 3), R0, R1>> >>

C4_Witness ==
    Parsed /\ raw_text = <<"~", "~", "~", "-", "-", "-", "|", "~", "~", "~">>

\* C5 as stated: the layout text of a sequential list is the last slot
\* exactly as written.
C5_LayoutIsLastSlotAsWritten ==
    (Parsed /\ ~WrappedLiteral(Stripped) /\ Len(Slots) > 1) =>
        output.text_for_layout = Slots[Len(Slots)]

\* C5 amended: the layout text of a sequential list is the text of its last
\* sub-segment: the last slot without its leading "---" when the slot is the
\* blank placeholder or a progressive reveal, the last slot as written
\* otherwise.
C5_LayoutIsLastRevealedText ==
    (Parsed /\ ~WrappedLiteral(Stripped) /\ Len(Slots) > 1) =>
        LET last == Slots[Len(Slots)]
        IN output.text_for_layout =
              IF Len(last) >= 3 /\ SubSeq(last, 1, 3) = <<"-", "-", "-">>
              THEN SubSeq(last, 4, Len(last))
              ELSE last

C5_Witness ==
    Parsed /\ raw_text = <<"a", "|", "-", "-", "-", "b">>
        /\ output.text_for_layout = <<"b">>

(***************************************************************************)
(* Properties of the note extractors (SpecMidi)                            *)
(***************************************************************************)
NoteIdx == 1..Len(all_processed_notes)
EndTick(n) == n.start_time_tick + n.duration_ticks
EndSec(n) == n.start_time_sec + n.duration_sec
SameTrackAndPitch(i, j) ==
    note_tracks[i] = note_tracks[j]
        /\ all_processed_notes[i].pitch = all_processed_notes[j].pitch
\* j is the note extracted next after i for the same track and pitch; during
\* the walk all_processed_notes is in extraction order
NextOfSameKey(i, j) ==
    /\ i < j /\ SameTrackAndPitch(i, j)
    /\ \A k \in NoteIdx : (i < k /\ k < j) => ~SameTrackAndPitch(i, k)

\* notes of the track being walked with pitch p, in extraction order
RECURSIVE NotesOfKey(_, _, _)
NotesOfKey(notes, tracks, p) ==
    IF notes = <<>> THEN <<>>
    ELSE LET rest == NotesOfKey(Tail(notes), Tail(tracks), p)
         IN IF Head(tracks) = track_idx /\ Head(notes).pitch = p
            THEN <<Head(notes)>> \o rest ELSE rest

\* C6 as stated: when a track has carried two note-on/note-off pairs of one
\* pitch and the second note-on's tick is earlier than the tick of the first
\* note-off, the output holds both notes and the second starts at the tick
\* where the first ends.
C6_BothNotesSecondAtFirstEnd ==
    mpc = "msgs" =>
        \A p \in Pitches :
            (Len(on_seen[p]) >= 2 /\ Len(off_seen[p]) >= 2
                /\ on_seen[p][1] <= off_seen[p][1]
                /\ on_seen[p][2] < off_seen[p][1]) =>
                LET ns == NotesOfKey(all_processed_notes, note_tracks, p)
                IN Len(ns) >= 2 /\ ns[2].start_time_tick = EndTick(ns[1])

\* C6 amended: when a note-on arrives at a tick earlier than the recorded end
\* (start_tick + duration_ticks) of the previous extracted note of the same
\* track and pitch, both notes are in the output and the later one starts
\* at the tick and second where the earlier one ends.
C6_ClampedToRecordedEnd ==
    mpc # "done" =>
        \A i, j \in NoteIdx :
            (NextOfSameKey(i, j) /\ note_on_ticks[j] < EndTick(all_processed_notes[i])) =>
                /\ all_processed_notes[j].start_time_tick = EndTick(all_processed_notes[i])
                /\ all_processed_notes[j].start_time_sec = EndSec(all_processed_notes[i])

C6_Witness ==
    /\ mpc = "msgs" /\ Len(all_processed_notes) = 2
    /\ NextOfSameKey(1, 2)
    /\ note_on_ticks[2] < EndTick(all_processed_notes[1])
    /\ all_processed_notes[2].start_time_tick = EndTick(all_processed_notes[1])

\* C7: two notes of one pitch extracted from one track never overlap, neither
\* as tick intervals [start, start + duration) nor as second intervals.
C7_SamePitchDisjoint ==
    \A i, j \in NoteIdx :
        (i # j /\ SameTrackAndPitch(i, j)) =>
            LET a == all_processed_notes[i]
                b == all_processed_notes[j]
            IN /\ (EndTick(a) <= b.start_time_tick \/ EndTick(b) <= a.start_time_tick)
               /\ (EndSec(a) <= b.start_time_sec \/ EndSec(b) <= a.start_time_sec)

WalkStep == mpc = "msgs" /\ mpc' = "msgs" /\ (pending' # pending \/ n_msgs' # n_msgs)

\* C9 as stated: both walkers convert each delta with 500000 until a
\* set_tempo of that same track has been passed, afterwards with the tempo of
\* the most recent set_tempo of that track.
C9_TempoOfThisTrackOnly ==
    [][WalkStep =>
          LET claimed == IF tempo_in_track = 0 THEN 500000 ELSE tempo_in_track
          IN /\ delta_sec_msg' = msg'.time * claimed
             /\ delta_sec' = msg'.time * claimed]_vars

\* C9 amended: MidiLoadThread.run converts each delta with the most recent
\* set_tempo passed in that track, and before one is passed with the tempo of
\* the track's first set_tempo if only meta messages precede it, else 500000;
\* generate_lyric_video_v2 converts with the most recent set_tempo passed in
\* any track walked so far, 500000 before the first.  A set_tempo passed in
\* the walk acts on later deltas only.
C9_TempoInEffect ==
    [][WalkStep =>
          LET loader == IF tempo_in_track # 0 THEN tempo_in_track
                        ELSE IF lead_tempo # 0 THEN lead_tempo ELSE 500000
              generator == IF tempo_in_file # 0 THEN tempo_in_file ELSE 500000
          IN /\ delta_sec_msg' = msg'.time * loader
             /\ delta_sec' = msg'.time * generator]_vars

\* a set_tempo with a non-zero delta heads the second track after the first
\* track carried another tempo
C9_Witness ==
    /\ mpc = "msgs" /\ track_idx = 1
    /\ msg.type = "set_tempo" /\ msg.time > 0
    /\ lead_tempo = msg.tempo /\ tempo_in_track = msg.tempo
    /\ delta_sec_msg = msg.time * msg.tempo
    /\ delta_sec # delta_sec_msg /\ delta_sec # msg.time * 500000

\* no overlap correction moved a note: each note starts at its note-on tick
NoOverlapCorrection ==
    \A i \in NoteIdx : all_processed_notes[i].start_time_tick = note_on_ticks[i]
\* longer than every minimum duration: the duration was not extended
NotExtended(duration_sec, duration_ticks) ==
    /\ duration_ticks > 1
    /\ \A tempo \in Tempos \cup {DefaultTempo} :
          duration_sec > Max(MinSec, tick2second(1, tempo))

\* C29: after both extractions of the same tracks, when no overlap correction
\* and no minimum-duration extension applied, the generator's notes have the
\* start times and durations of the loader's notes, one for one.
C29_ExtractorsAgree ==
    (/\ mpc = "done" /\ NoOverlapCorrection
     /\ \A i \in NoteIdx : NotExtended(all_processed_notes[i].duration_sec,
                                       all_processed_notes[i].duration_ticks)
     /\ \A i \in 1..Len(timed_notes) : NotExtended(timed_notes[i].duration_sec,
                                                   timed_notes[i].duration_ticks)) =>
        /\ Len(timed_notes) = Len(all_processed_notes)
        /\ \A i \in NoteIdx :
              /\ timed_notes[i].time_sec = all_processed_notes[i].start_time_sec
              /\ timed_notes[i].duration_sec = all_processed_notes[i].duration_sec

(***************************************************************************)
(* Properties of the event scheduler (SpecSched)                           *)
(***************************************************************************)
\* the char events in document order: line by line, segment by segment
CharsInOrder ==
    LET chars == CharEvents(final_events)
    IN SortedBy(chars, [i \in 1..Len(chars) |->
                          <<chars[i].data.line_idx, chars[i].data.segment_idx_in_line>>])

\* C10 as stated, for runs whose notes come from the track walk: there are
\* never more char events than notes, and the notes bound to successive
\* segments have strictly increasing start times.
C10_StrictlyIncreasingStarts ==
    (spc = "timeline" /\ timed_notes # <<>>) =>
        /\ Len(CharsInOrder) <= Len(note_events_with_full_duration_info)
        /\ \A i \in 1..(Len(CharsInOrder) - 1) :
              CharsInOrder[i].data.note_start_time_sec
                  < CharsInOrder[i + 1].data.note_start_time_sec

\* C10 amended: there are never more char events than notes, and the notes
\* bound to successive segments have start times that never decrease (two
\* notes that start together are bound to successive segments).
C10_NonDecreasingStarts ==
    spc = "timeline" =>
        /\ Len(CharsInOrder) <= Len(note_events_with_full_duration_info)
        /\ \A i \in 1..(Len(CharsInOrder) - 1) :
              CharsInOrder[i].data.note_start_time_sec
                  <= CharsInOrder[i + 1].data.note_start_time_sec

\* three segments bound, the first two to notes that start together
C10_Witness ==
    /\ spc = "timeline"
    /\ Len(CharsInOrder) = 3
    /\ CharsInOrder[1].data.note_start_time_sec = CharsInOrder[2].data.note_start_time_sec
    /\ CharsInOrder[2].data.note_start_time_sec < CharsInOrder[3].data.note_start_time_sec

\* number of segments of the lines before line index idx
RECURSIVE SegmentsBefore(_, _)
SegmentsBefore(lyrics, idx) ==
    IF idx = 0 THEN 0 ELSE SegmentsBefore(lyrics, idx - 1) + Len(lyrics[idx])

EventIdx == 1..Len(final_events)
IsChar(i) == final_events[i].type = "char"
IsClear(i) == final_events[i].type = "clear_line"
CharIdx == {i \in EventIdx : IsChar(i)}
\* position in reading order, from 1, of the segment of char event i
ReadingPos(i) ==
    SegmentsBefore(parsed_lyrics, final_events[i].data.line_idx)
        + final_events[i].data.segment_idx_in_line + 1
Min(a, b) == IF a < b THEN a ELSE b

\* C11: the k-th segment in reading order over all lines is bound to the k-th
\* note of the sorted list (the segments bound are the first ones, as many as
\* there are notes), no note is bound twice, no segment is bound twice, and a
\* blank line has no segment and no char event.
C11_FifoBinding ==
    spc = "timeline" =>
        LET notes == note_events_with_full_duration_info
        IN /\ Cardinality(CharIdx)
                 = Min(SegmentsBefore(parsed_lyrics, Len(parsed_lyrics)), Len(notes))
           /\ \A i \in CharIdx :
                 /\ ReadingPos(i) <= Len(notes)
                 /\ final_events[i].data.note_ptr + 1 = ReadingPos(i)
                 /\ final_events[i].time = notes[ReadingPos(i)].time_sec
                 /\ final_events[i].data.pitch = notes[ReadingPos(i)].pitch
                 /\ final_events[i].data.original_segment_text
                        = parsed_lyrics[final_events[i].data.line_idx + 1]
                                       [final_events[i].data.segment_idx_in_line + 1]
           /\ \A i, j \in CharIdx :
                 i # j => /\ final_events[i].data.note_ptr # final_events[j].data.note_ptr
                          /\ ReadingPos(i) # ReadingPos(j)
           /\ \A l \in 1..Len(lyrics_file) :
                 Strip(lyrics_file[l]) = <<>> =>
                     /\ parsed_lyrics[l] = <<>>
                     /\ \A i \in CharIdx : final_events[i].data.line_idx # l - 1

\* a blank first line, then a line whose two segments are bound to the first
\* two notes
C11_Witness ==
    /\ spc = "timeline"
    /\ Len(lyrics_file) = 2 /\ Strip(lyrics_file[1]) = <<>>
    /\ Len(parsed_lyrics[2]) = 2
    /\ Cardinality(CharIdx) = 2
    /\ \A i \in CharIdx : final_events[i].data.line_idx = 1

\* C12: the timeline is in non-decreasing order of time, no char event comes
\* before a clear_line event of the same time, and every line with a char
\* event has its clear_line event, at the start of the first note bound to
\* the line, before all its char events.
C12_TimelineOrder ==
    spc = "timeline" =>
        /\ \A i, j \in EventIdx :
              i < j => /\ final_events[i].time <= final_events[j].time
                       /\ final_events[i].time = final_events[j].time
                              => ~(IsChar(i) /\ IsClear(j))
        /\ \A i \in CharIdx :
              \E c \in EventIdx :
                  /\ IsClear(c) /\ c < i
                  /\ final_events[c].data.line_idx = final_events[i].data.line_idx
                  /\ final_events[c].time =
                         note_events_with_full_duration_info
                             [SegmentsBefore(parsed_lyrics,
                                  final_events[i].data.line_idx) + 1].time_sec

\* two lines bound to notes that start together: the clear_line of the second
\* line has the time of the char event of the first
C12_Witness ==
    /\ spc = "timeline"
    /\ \E i, j \in EventIdx :
          /\ IsChar(i) /\ final_events[i].data.line_idx = 0
          /\ IsClear(j) /\ final_events[j].data.line_idx = 1
          /\ final_events[i].time = final_events[j].time
    /\ \E i \in CharIdx : final_events[i].data.line_idx = 1

(***************************************************************************)
(* Properties of the frame loop (SpecVideo, SpecEndToEnd)                  *)
(***************************************************************************)
\* the frame loop wrote its last frame
VideoDone == fpc = "done"
\* a frame has been written; LastTime is its clock
FrameWritten == fpc \in {"frames", "done"} /\ frame_num > 0
LastTime == CurrentVideoTime(frame_num - 1, fps)
\* the trailing clear_line is the event tagged one line beyond the last used
TrailingIdx ==
    {i \in EventIdx : IsClear(i) /\ \A j \in EventIdx \ {i} :
                          final_events[j].data.line_idx < final_events[i].data.line_idx}

\* C13 as stated, for runs that showed a segment: a run that scheduled an
\* event and wrote all its frames has consumed the trailing clear_line in one
\* of them.
C13_TrailingClearConsumed ==
    (VideoDone /\ final_events # <<>> /\ \E c \in CharIdx : c <= current_event_ptr) =>
        /\ TrailingIdx # {}
        /\ \A i \in TrailingIdx :
              /\ final_events[i].time =
                     Max(MaxOf(EventTimes(CharEvents(final_events)), 0) + HalfSec,
                         total_midi_duration_sec + TenthSec)
              /\ i <= current_event_ptr

\* there are notes, and a line starts with no note left or has more segments
\* than the notes left
NumNotes == Len(note_events_with_full_duration_info)
LineStartsWithoutNote(l) == SegmentsBefore(parsed_lyrics, l) >= NumNotes
NotesRanOut ==
    /\ spc \in {"break", "timeline"}
    /\ NumNotes > 0
    /\ \E l \in 0..(Len(parsed_lyrics) - 1) :
          LineStartsWithoutNote(l) \/ SegmentsBefore(parsed_lyrics, l + 1) > NumNotes

\* C14: when the notes run out before the lyrics do, no segment beyond the
\* last note has a char event, no line that starts with no note left has a
\* clear_line event other than the one trailing clear_line, a warning is
\* logged and no error, and the run goes on to the frame loop with at least
\* one frame.
C14_NotesRunOut ==
    (NotesRanOut /\ spc = "timeline") =>
        /\ \A i \in CharIdx : ReadingPos(i) <= NumNotes
        /\ \A i \in EventIdx :
              (IsClear(i) /\ LineStartsWithoutNote(final_events[i].data.line_idx))
                  => i \in TrailingIdx
        /\ Cardinality(TrailingIdx) = 1
        /\ \E kind \in {"line_short", "mid_line_short"} : <<"warning", kind>> \in logged
        /\ \A entry \in logged : entry[1] # "error"
        /\ fpc # "error"
        /\ fpc # "idle" => video_total_frames >= 1
        /\ VideoDone => frame_num = video_total_frames

\* the notes ran out in the middle of the first of two lines, and the run
\* wrote its frames
C14_Witness ==
    /\ NotesRanOut /\ VideoDone /\ frame_num >= 1
    /\ Len(parsed_lyrics) = 2
    /\ SegmentsBefore(parsed_lyrics, 1) > NumNotes
    /\ parsed_lyrics[2] # <<>>
    /\ CharIdx # {}

\* the width of a line from the final text of its bound segments: every
\* segment but the last is followed by its padding and the spacing
RECURSIVE FinalTextWidth(_, _)
FinalTextWidth(chars, k) ==
    IF k = 0 THEN 0
    ELSE FinalTextWidth(chars, k - 1) + _get_text_width(chars[k].data.text_for_layout)
           + (IF k < Len(chars)
              THEN TrailingPadding(chars[k].data.duration_ticks) + CharSpacing ELSE 0)

CharsOfLine(l) ==
    SelectSeq(CharsInOrder, LAMBDA ev : ev.data.line_idx = l)

NoRepeat(seq) == \A i, j \in 1..Len(seq) : i # j => seq[i] # seq[j]

C15_LayoutState ==
    line_placement_mode = "fixed" =>
        /\ NoRepeat(layout_runs)
        /\ DOMAIN fixed_layout_cache = {layout_runs[i] : i \in 1..Len(layout_runs)}
        /\ \A l \in DOMAIN fixed_layout_cache :
              /\ fixed_layout_cache[l].total_width_for_alignment
                     = FinalTextWidth(CharsOfLine(l), Len(CharsOfLine(l)))
              /\ fixed_layout_cache[l].line_start_x_on_canvas
                     = IF line_h_align = "right"
                       THEN RInt(ActualLineAnchorX
                                   - FinalTextWidth(CharsOfLine(l), Len(CharsOfLine(l))))
                       ELSE RSub(RInt(ActualLineAnchorX),
                                 Rat(FinalTextWidth(CharsOfLine(l), Len(CharsOfLine(l))), 2))
        /\ start_x_used # <<>> =>
              /\ current_line_idx_on_screen \in DOMAIN fixed_layout_cache
              /\ start_x_used[1] =
                     fixed_layout_cache[current_line_idx_on_screen].line_start_x_on_canvas

C15_LayoutStep ==
    /\ \A l \in DOMAIN fixed_layout_cache :
          l \in DOMAIN fixed_layout_cache' /\ fixed_layout_cache'[l] = fixed_layout_cache[l]
    /\ (line_placement_mode = "fixed" /\ start_x_used # <<>> /\ start_x_used' # <<>>
          /\ current_line_idx_on_screen' = current_line_idx_on_screen)
            => start_x_used' = start_x_used

\* C15: in fixed placement mode the layout of a line is calculated at most
\* once, its width and start are those of the final texts (text_for_layout)
\* of the segments scheduled for the line, a cached layout never changes, and
\* every frame that draws the line starts at the cached start_x, the same in
\* all of them.
C15_FixedLayoutOnce == []C15_LayoutState /\ [][C15_LayoutStep]_vars

\* a line with a progressive segment drawn in two successive frames with
\* different visible text, its layout calculated once
C15_Witness ==
    /\ line_placement_mode = "fixed" /\ frame_num >= 2
    /\ current_line_idx_on_screen \in DOMAIN fixed_layout_cache
    /\ Len(drawn) = 2 /\ drawn[1].shown /\ drawn[2].shown
    /\ drawn[1].text = <<"a", "b">>
    /\ active_segment_event_data[1].text_for_layout = <<"a", "b">>
    /\ active_segment_event_data[1].note_start_time_sec = 0
    /\ LastTime < active_segment_event_data[1].note_duration_sec
    /\ start_x_used # <<>>

\* slot i is drawn with a glyph in the frame written last
Visible(d, i) == i <= Len(d) /\ d[i].shown /\ d[i].text # <<>>

\* C16 as stated: in fixed placement mode, a segment with a glyph in two
\* successive frames of the same line has its first glyph at the same x in
\* both.
C16_SegmentDoesNotShift ==
    [][(line_placement_mode = "fixed" /\ fpc = "frames" /\ frame_num' = frame_num + 1
          /\ frame_num >= 1
          /\ current_line_idx_on_screen' = current_line_idx_on_screen)
        => \A i \in 1..Len(drawn) :
              (Visible(drawn, i) /\ Visible(drawn', i)) => drawn'[i].x = drawn[i].x]_vars

\* the texts drawn in the frame written last, slot by slot
VisibleTexts ==
    [i \in {j \in 1..Len(drawn) : Visible(drawn, j)} |-> drawn[i].text]

EndToEndInput ==
    /\ lyrics_file = <<<<"a", "/", "b">>>>
    /\ note_events_with_full_duration_info = TwoNotes
    /\ total_midi_duration_sec = 2 * SecUnit
    /\ fps = 30

\* C17: on the 2 s file with pitch 60 at 0 s and pitch 64 at 1 s, the line
\* 'a/b' and 30 fps, the frame loop writes exactly 60 frames; frames 0 to 29
\* show only 'a', frames 30 to 59 show 'a' and 'b'.
C17_EndToEnd ==
    (EndToEndInput /\ fpc \in {"frames", "done"}) =>
        /\ video_total_frames = 60
        /\ frame_num <= 60
        /\ VideoDone => frame_num = 60
        /\ (frame_num >= 1 /\ frame_num - 1 <= 29) => VisibleTexts = (1 :> <<"a">>)
        /\ (frame_num >= 1 /\ frame_num - 1 >= 30)
              => VisibleTexts = (1 :> <<"a">> @@ 2 :> <<"b">>)

\* the run on that input wrote its 60 frames
C17_Witness ==
    /\ EndToEndInput /\ VideoDone /\ frame_num = 60
    /\ VisibleTexts = (1 :> <<"a">> @@ 2 :> <<"b">>)

\* round(duration * fps): to the nearest integer, a half to the even one
RoundFrames(duration, f) ==
    LET q == duration \div FrameUnit(f)
        r == duration % FrameUnit(f)
    IN IF 2 * r < FrameUnit(f) THEN q
       ELSE IF 2 * r > FrameUnit(f) THEN q + 1
       ELSE IF q % 2 = 0 THEN q ELSE q + 1

\* the MIDI duration, extended to the time of the latest timeline event
EffectiveDuration ==
    Max(total_midi_duration_sec, MaxOf(EventTimes(final_events), 0))

\* C18 as stated, for MIDI files of positive length: a run that wrote all its
\* frames wrote round(effective_duration * fps) of them.
C18_FrameCountIsRounded ==
    (VideoDone /\ total_midi_duration_sec > 0)
        => frame_num = RoundFrames(EffectiveDuration, fps)

\* progress of the note of event data ed at the clock of the frame written last
ProgressAtLastTime(ed) ==
    IF LastTime <= ed.note_start_time_sec THEN R0
    ELSE IF LastTime >= ed.note_start_time_sec + ed.note_duration_sec THEN R1
    ELSE Rat(LastTime - ed.note_start_time_sec, ed.note_duration_sec)

\* the sub-segments of ed whose interval holds the progress p: the end bound
\* counts only for the last sub-segment
SubSegmentsHolding(ed, p) ==
    {k \in 1..Len(ed.sub_segments_timed) :
        /\ RLe(ed.sub_segments_timed[k][2], p)
        /\ \/ RLt(p, ed.sub_segments_timed[k][3])
           \/ k = Len(ed.sub_segments_timed) /\ p = ed.sub_segments_timed[k][3]}

DynamicSlots ==
    {i \in 1..Len(active_segment_event_data) :
        IsActive(active_segment_event_data[i]) /\ active_segment_event_data[i].is_dynamic}

\* C19: in every frame, each active dynamic segment shows the text of the one
\* sub-segment whose [start_ratio, end_ratio) holds the clamped progress of
\* its note (the end bound counting for the last sub-segment only): the first
\* sub-segment at the note start, the last one from the note end onwards.
C19_SubSegmentShown ==
    FrameWritten =>
        \A i \in DynamicSlots :
            LET ed == active_segment_event_data[i]
                holding == SubSegmentsHolding(ed, ProgressAtLastTime(ed))
            IN /\ Cardinality(holding) = 1
               /\ drawn[i].shown
               /\ \A k \in holding : drawn[i].text = ed.sub_segments_timed[k][1]
               /\ LastTime <= ed.note_start_time_sec
                     => drawn[i].text = ed.sub_segments_timed[1][1]
               /\ LastTime >= ed.note_start_time_sec + ed.note_duration_sec
                     => drawn[i].text
                          = ed.sub_segments_timed[Len(ed.sub_segments_timed)][1]

\* a progressive segment half way through a note that starts at 1 s
C19_Witness ==
    /\ FrameWritten
    /\ \E i \in DynamicSlots :
          /\ active_segment_event_data[i].note_start_time_sec = SecUnit
          /\ ProgressAtLastTime(active_segment_event_data[i]) = <<1, 2>>
          /\ Len(active_segment_event_data[i].sub_segments_timed) = 2
          /\ drawn[i].text = <<"a", "b">>

C20_CursorState ==
    /\ consumed = [i \in 1..current_event_ptr |-> i]
    /\ current_event_ptr <= Len(final_events)
    /\ FrameWritten =>
          \A i \in EventIdx : i <= current_event_ptr <=> final_events[i].time <= LastTime

C20_CursorStep ==
    /\ current_event_ptr' >= current_event_ptr
    /\ SubSeq(consumed', 1, Len(consumed)) = consumed

\* C20: the event cursor never decreases, the events are processed one by
\* one in timeline order with none left out, and after the events of a frame
\* are consumed the cursor has passed exactly the events whose time is not
\* later than the clock of the frame.
C20_CursorMonotonic == []C20_CursorState /\ [][C20_CursorStep]_vars

\* a frame consumed two events or more and left later ones for later frames
C20_Witness ==
    /\ FrameWritten /\ frame_num = 1
    /\ current_event_ptr >= 2
    /\ current_event_ptr < Len(final_events)
    /\ \E i \in CharIdx : i > current_event_ptr

\* the on-screen line index after the k-th event processed
LineAfter(k) ==
    IF k < Len(line_when_consumed) THEN line_when_consumed[k + 1]
    ELSE current_line_idx_on_screen
ConsumedIdx == 1..Len(consumed)
ConsumedEvent(k) == final_events[consumed[k]]
\* the k-th event processed is a char event that found its line on screen
CharOnItsLine(k) ==
    /\ ConsumedEvent(k).type = "char"
    /\ ConsumedEvent(k).data.line_idx = line_when_consumed[k]

\* C27: the on-screen line index never decreases; a clear_line event changes
\* it, to its own line, exactly when its line is greater or no line is on
\* screen, and a char event never changes it; a slot holds an event only of
\* the line on screen and of its own segment index, and it holds one exactly
\* when a char event of that slot was processed while its line was on screen.
C27_LineGating ==
    /\ Len(line_when_consumed) = Len(consumed)
    /\ \A k \in ConsumedIdx :
          LET ev == ConsumedEvent(k)
              before == line_when_consumed[k]
          IN /\ LineAfter(k) >= before
             /\ LineAfter(k) =
                   IF ev.type = "clear_line"
                        /\ (ev.data.line_idx > before \/ before = -1)
                   THEN ev.data.line_idx ELSE before
    /\ Len(active_segment_event_data) = num_max_segments_in_current_line
    /\ \A i \in 1..Len(active_segment_event_data) :
          LET ed == active_segment_event_data[i]
          IN /\ IsActive(ed) =>
                   /\ ed.line_idx = current_line_idx_on_screen
                   /\ ed.segment_idx_in_line = i - 1
             /\ IsActive(ed) <=>
                   \E k \in ConsumedIdx :
                      /\ CharOnItsLine(k)
                      /\ ConsumedEvent(k).data.line_idx = current_line_idx_on_screen
                      /\ ConsumedEvent(k).data.segment_idx_in_line = i - 1

\* a char event was processed while another line was on screen, and a slot
\* of the line on screen is filled
C27_Witness ==
    /\ \E k \in ConsumedIdx :
          ConsumedEvent(k).type = "char" /\ ~CharOnItsLine(k)
    /\ \E i \in 1..Len(active_segment_event_data) :
          IsActive(active_segment_event_data[i])

\* C28: every char event the frame loop processes finds its own line on
\* screen, so that its slot is filled.
C28_EveryCharShown ==
    total_midi_duration_sec > 0 =>
        \A k \in ConsumedIdx :
            ConsumedEvent(k).type = "char" => CharOnItsLine(k)

(***************************************************************************)
(* Properties of a run with its failures (SpecRun)                         *)
(***************************************************************************)
Returned == fpc \in {"done", "error"}
Errors == {m \in logged : m[1] = "error"}
RunEnded == generation_finished # <<>> \/ fpc = "crashed"

\* the number of things wrong with what the run is given
FailureCount ==
    (IF midi_readable THEN 0 ELSE 1) + (IF lyrics_readable THEN 0 ELSE 1)
        + (IF font_usable THEN 0 ELSE 1)
        + (IF codec_results[1] = "opened" THEN 0 ELSE 1)
        + (IF frame_fault[1] = "none" THEN 0 ELSE 1)
\* a readable MIDI file has a note
HasNote == midi_readable => timed_notes # <<>>

\* C21: once the thread's interruption was requested while the frame loop
\* is running, the loop writes no further frame, and when it leaves the loop
\* the encoder has been released.
C21_StopsOnInterruption ==
    [][(interruption_requested /\ fpc = "frames" /\ FailureCount = 0 /\ HasNote) =>
          /\ frame_num' = frame_num
          /\ (fpc' \in {"done", "error"} => writers'[video_writer].releases = 1)]_vars

\* C22: when the function has returned, every encoder object made was
\* released exactly once, and every frame was written to an encoder that
\* had not been released.
C22_ReleasedOnce ==
    (font_usable /\ frame_fault[1] = "none" /\ HasNote) =>
    /\ Returned => \A w \in 1..Len(writers) : writers[w].releases = 1
    /\ \A w \in 1..Len(writers) : writers[w].frames > 0 => writers[w].releases <= 1
    /\ (fpc = "frames" /\ frame_num > 0) => writers[video_writer].releases = 0

\* C23: a run given an unreadable MIDI file, an unreadable lyric file or an
\* unusable font makes no encoder object and never enters the frame loop.
C23_InputErrorBeforeEncoder ==
    (FailureCount <= 1 /\ HasNote
        /\ (~midi_readable \/ ~lyrics_readable \/ ~font_usable)) =>
        (writers = <<>> /\ fpc \notin {"frames", "done"})

\* C24: a run that extracted no note, by the track walk and by the fallback,
\* makes no encoder object and writes no frame, whatever the length of the
\* MIDI file.
C24_NoNotesIsHardStop ==
    (FailureCount = 0 /\ spc # "idle" /\ note_events_with_full_duration_info = <<>>) =>
        (writers = <<>> /\ frame_num = 0 /\ fpc \notin {"frames", "done"})

\* C25: a run that has ended emitted exactly one generation_finished signal,
\* and when the function returned early the signal reports failure and
\* exactly one error message was logged.
C25_OneTerminalSignal ==
    (RunEnded /\ FailureCount <= 1 /\ HasNote) =>
        /\ Len(generation_finished) = 1
        /\ (fpc = "error" =>
               (generation_finished[1] = FALSE /\ Cardinality(Errors) = 1))

\* C26: progress_callback was called once for each frame written, and never
\* otherwise: the i-th call carries <<i, video_total_frames>>, and after a
\* run that wrote all its frames the last call carries framesDone =
\* framesTotal.
C26_ProgressPerFrame ==
    /\ Len(progress_calls) = (IF video_writer = 0 THEN 0
                              ELSE writers[video_writer].frames)
    /\ \A i \in 1..Len(progress_calls) : progress_calls[i] = <<i, video_total_frames>>
    /\ fpc = "done" =>
         /\ progress_calls # <<>>
         /\ progress_calls[Len(progress_calls)][1] = video_total_frames

C26_Witness ==
    /\ fpc = "error" /\ frame_fault = <<"write", 1>>
    /\ progress_calls = <<<<1, video_total_frames>>>>
    /\ video_total_frames > 1

(***************************************************************************)
(* Properties of the window (SpecUi)                                       *)
(***************************************************************************)
\* C30: at most one VideoGenThread runs at a time, and while one runs or its
\* generation_finished signal is not yet handled the generate button is
\* disabled, the progress bar is visible and the lyric editor is read-only.
C30_BusyWhileGenerating ==
    /\ video_workers <= 1
    /\ (video_gen_thread = "running" \/ generation_finished_queued > 0) =>
          (~generate_button_enabled /\ progress_bar_visible /\ lyrics_edit_read_only)

====
